---------------------------- MODULE Spec2Model ----------------------------
(***************************************************************************)
(* q-shell: the executor (src/core/shell.c) walking a parsed command chain, *)
(* with the child processes it forks, the SIGCHLD handler and the job      *)
(* table; and the parser (qsh_parse_command) building the chain from a     *)
(* token list.                                                             *)
(***************************************************************************)
EXTENDS Integers, Sequences, FiniteSets, TLC

(***************************************************************************)
(* Bounds of the model.                                                    *)
(***************************************************************************)
\* longest command chain handed to qsh_execute_command
MaxChain == 3
\* longest token list over the whole vocabulary handed to the parser's loop
MaxTokens == 4
\* longest token list made of plain words and redirections only
MaxRedirTokens == 6
\* number of history calls in one run
MaxHistoryOps == 3
\* seconds the clock advances in one run
MaxTicks == 1

(***************************************************************************)
(* Program constants.                                                      *)
(***************************************************************************)
MAX_JOBS == 100
SIGTERM == 15
MAX_ARGS == 64
MAX_REDIRECTIONS == 4
MAX_HISTORY_ENTRIES == 1000
VAR_TABLE_SIZE == 256
SIGTSTP == 20
SIGINT == 2
SIGQUIT == 3
SIGCHLD == 17
SIGTTIN == 21
SIGTTOU == 22

VARIABLES
    \* ---- executor (qsh_execute_command / execute_pipeline) ----
    chain,            \* the parsed chain: sequence of nodes [kind, op]
    pc,               \* position of the shell process in the executor
    cur,              \* index of `cmd` in chain; Len(chain)+1 is NULL
    last_status,      \* shell_state.last_status
    foreground_pgid,  \* shell_state.foreground_pgid
    ret,              \* value returned by qsh_execute_command
    hist_status,      \* the statuses main() has handed to qsh_history_add
    wpid,             \* pid the single-command path waits for
    pl,               \* locals of execute_pipeline
    \* ---- processes and job table ----
    procs,            \* children forked so far, indexed by pid
    jobs,             \* jobs[0..job_count-1]
    next_job_id,
    \* ---- history of the run (observations, not program state) ----
    started,          \* nodes the executor's loop has begun to process
    runs,             \* completed command nodes with the status obtained
    \* ---- parser (qsh_parse_command) ----
    tokens,           \* the token list returned by tokenize()
    tok_i,            \* the loop index i (0-based, as in the source)
    cmds,             \* the chain from first_cmd; current_cmd is the last node
    parse_pc,         \* position in qsh_parse_command, or how it returned
    \* ---- terminal ----
    shell_is_interactive,  \* static shell_is_interactive = isatty(STDIN_FILENO)
    is_interactive,   \* the global shell_state.is_interactive the handlers read
    printed,          \* what handle_sigchld has written to stdout
    \* ---- command history (utils/history.c) ----
    history,          \* history.entries[0..count-1]
    file,             \* the history file: whether it exists, and its lines
    clock,            \* what time(NULL) returns
    hist_op,          \* the last history call, its arguments and its result
    saved,            \* the entries qsh_history_save last wrote
    \* ---- shell variables (utils/tokenizer.c) ----
    var_table,        \* var_table[index] for the buckets in use: chains, head first
    environ,          \* the process environment: name -> value or NULL
    variables_initialized,
    store_op,         \* the last call on the variable store and its result
    \* ---- aliases (utils/aliases.c) ----
    alias_table,      \* the entries of alias_table, newest first
    line,             \* the input line main() hands to qsh_alias_expand
    expanded_input,   \* *output of qsh_alias_expand, main()'s expanded_input
    alias_pc,         \* "set": aliases are being defined; "expanded": qsh_alias_expand has returned
    \* ---- profiler (profiler/profiler.c, qsh_enable_profiling) ----
    prof,             \* the statics of profiler.c, and the pids the kernel has traced
    profiling_enabled,  \* the flag of core/shell.c
    prof_op,          \* the last profiler call or `profile` command and its result
    \* ---- tokenizer (utils/tokenizer.c, tokenize) ----
    lex_input,        \* the line handed to tokenize(), a sequence of characters
    lex_beyond,       \* the bytes that lie in memory after the line's terminator
    lex_list,         \* what tokenize() returned: [ok, tokens]
    lex_cmd,          \* what main() did with the line
    lex_pc,           \* "ready", "lexed" (tokenize returned), "parsed"
    \* ---- arithmetic (utils/tokenizer.c, evaluate_arithmetic) ----
    arith_expr,       \* the expression handed to evaluate_arithmetic, as its terms
    arith_result,     \* what evaluate_arithmetic returned
    \* ---- directories (builtins/builtins.c, qsh_builtin_cd) ----
    cwd,              \* the working directory of the shell process (chdir, getcwd)
    current_dir,      \* the global shell_state.current_dir
    previous_dir,     \* the global shell_state.previous_dir
    cd_log,           \* the cd commands run so far and what each did
    \* ---- terminal hand-over (core/shell.c, put_process_in_foreground) ----
    tty_pgrp,         \* the foreground process group of the terminal (0: no terminal)
    tty_modes,        \* the terminal's modes: shell_tmodes, or what a job has set
    tty_ops,          \* tcgetattr/tcsetattr/tcsetpgrp calls the shell has made
    fg_pc,            \* position of the shell around put_process_in_foreground
    fg_jobs,          \* the process groups of the shell's jobs and their state
    fg_rounds,        \* foreground waits begun so far
    \* ---- descriptors of an internal command (core/shell.c, qsh_execute_command) ----
    fd_table,         \* the shell's descriptor table: descriptor -> open file (0: closed)
    fd_before,        \* the table when the internal command was met
    redirs,           \* cmd->redirections with what open() or the here-document will do
    redir_i,          \* the loop index i of setup_redirections
    saved_fds,        \* saved_stdout, saved_stderr, saved_stdin
    fd_pc             \* position of the executor in the internal-command branch

execVars == <<chain, pc, cur, last_status, foreground_pgid, ret, hist_status, wpid, pl>>
procVars == <<procs, jobs, next_job_id>>
obsVars  == <<started, runs>>
parseVars == <<tokens, tok_i, cmds, parse_pc>>
termVars == <<shell_is_interactive, is_interactive, printed>>
histVars == <<history, file, clock, hist_op, saved>>
storeVars == <<var_table, environ, variables_initialized, store_op>>
aliasVars == <<alias_table, line, expanded_input, alias_pc>>
profVars == <<prof, profiling_enabled, prof_op>>
lexVars == <<lex_input, lex_beyond, lex_list, lex_cmd, lex_pc>>
arithVars == <<arith_expr, arith_result>>
dirVars == <<cwd, current_dir, previous_dir, cd_log>>
ttyVars == <<tty_pgrp, tty_modes, tty_ops, fg_pc, fg_jobs, fg_rounds>>
fdVars == <<fd_table, fd_before, redirs, redir_i, saved_fds, fd_pc>>
utilVars == <<histVars, storeVars, aliasVars, profVars, lexVars, arithVars, dirVars, ttyVars, fdVars>>
shellVars == <<execVars, procVars, obsVars, parseVars, termVars>>
notHistVars == <<shellVars, storeVars, aliasVars, profVars, lexVars, arithVars, dirVars, ttyVars, fdVars>>
notStoreVars == <<shellVars, histVars, aliasVars, profVars, lexVars, arithVars, dirVars, ttyVars, fdVars>>
notAliasVars == <<shellVars, histVars, storeVars, profVars, lexVars, arithVars, dirVars, ttyVars, fdVars>>
notProfVars == <<shellVars, histVars, storeVars, aliasVars, lexVars, arithVars, dirVars, ttyVars, fdVars>>
notLexVars == <<shellVars, histVars, storeVars, aliasVars, profVars, arithVars, dirVars, ttyVars, fdVars>>
notArithVars == <<shellVars, histVars, storeVars, aliasVars, profVars, lexVars, dirVars, ttyVars, fdVars>>
notDirVars == <<shellVars, histVars, storeVars, aliasVars, profVars, lexVars, arithVars, ttyVars, fdVars>>
notTtyVars == <<shellVars, histVars, storeVars, aliasVars, profVars, lexVars, arithVars, dirVars, fdVars>>
notFdVars == <<shellVars, histVars, storeVars, aliasVars, profVars, lexVars, arithVars, dirVars, ttyVars>>
notTtyUtilVars == <<histVars, storeVars, aliasVars, profVars, lexVars, arithVars, dirVars, fdVars>>
notStoreUtilVars == <<histVars, aliasVars, profVars, lexVars, arithVars, dirVars, ttyVars, fdVars>>
vars == <<shellVars, utilVars>>

(***************************************************************************)
(* Data.                                                                   *)
(***************************************************************************)
\* qsh_cmd_operator_t
Ops == {"NONE", "PIPE", "AND", "OR", "BACKGROUND"}
\* a node is an internal command, an external one, or has an empty argv
Kinds == {"internal", "external", "empty"}
Node == [kind : Kinds, op : Ops]
\* execute_pipeline runs every stage with execvp, whatever its name, and
\* returns to the caller of qsh_execute_command: the kind of a later stage
\* is never looked at, and such a node is given the kind external
IsLaterStage(c, i) == i > 1 /\ c[i - 1].op = "PIPE" /\ c[i - 1].kind = "external"
Chains == {c \in UNION {[1..n -> Node] : n \in 1..MaxChain} :
              \A i \in 1..Len(c) : IsLaterStage(c, i) => c[i].kind = "external"}

\* exit codes of commands: success and failure
StatusVals == {0, 1}

\* wait(2) status words: exit code e is e*256, death by signal n is n
ExitWord(e) == e * 256
WaitWords == {ExitWord(e) : e \in StatusVals} \cup {SIGTERM}
WIFEXITED(ws) == (ws % 128) = 0
WIFSTOPPED(ws) == (ws % 256) = 127
\* the status word of a child stopped by signal sig
StopWord(sig) == sig * 256 + 127
WEXITSTATUS(ws) == (ws \div 256) % 256
\* status = WIFEXITED(status) ? WEXITSTATUS(status) : 1
Decode(ws) == IF WIFEXITED(ws) THEN WEXITSTATUS(ws) ELSE 1

\* open: the pipe descriptors the shell holds
NoPl == [first |-> 0, k |-> 0, i |-> 0, pids |-> <<>>, first_pid |-> 0,
         pipes |-> 0, exit_status |-> 0, open |-> {}]


(***************************************************************************)
(* The utilities at rest: what the shell's other parts are while the       *)
(* executor or the parser is followed.                                     *)
(***************************************************************************)
NoHistOp == [op |-> "none", command |-> "", exit_status |-> 0, ret |-> 0,
             after_save |-> FALSE, n |-> 0]
NoFile == [exists |-> FALSE, lines |-> <<>>]
HistoryIdle ==
    /\ history = <<>> /\ file = NoFile /\ clock = 1 /\ hist_op = NoHistOp /\ saved = <<>>
\* the null pointer
NULL == "<NULL>"
\* names are strings of character codes: "aR", "b1", "c", and "-"
VarNames == {<<97, 82>>, <<98, 49>>, <<99>>, <<45>>}
\* hash = hash * 33 + c on an unsigned int, from 5381; then % VAR_TABLE_SIZE.
\* The wrap-around of the unsigned int is modulo 2^32, a multiple of
\* VAR_TABLE_SIZE: the remainder can be taken at every step
RECURSIVE HashFrom(_, _)
HashFrom(h, name) ==
    IF name = <<>> THEN h
    ELSE HashFrom((h * 33 + Head(name)) % VAR_TABLE_SIZE, Tail(name))
hash_var_name(name) == HashFrom(5381, name) % VAR_TABLE_SIZE

\* the buckets of var_table that a name of VarNames hashes to; the other
\* buckets stay empty and are left out
Buckets == {hash_var_name(n) : n \in VarNames}
EmptyTable == [b \in Buckets |-> <<>>]
NoStoreOp == [op |-> "none", name |-> <<>>, value |-> "", exported |-> FALSE, ret |-> 0]
StoreIdle ==
    /\ var_table = EmptyTable /\ environ = [n \in VarNames |-> NULL]
    /\ variables_initialized = FALSE /\ store_op = NoStoreOp
AliasIdle == alias_table = <<>> /\ line = <<>> /\ expanded_input = <<>> /\ alias_pc = "idle"
\* the syscall numbers whose entries of syscall_stats are followed
Syscalls == {0, 1}
NoStat == [count |-> 0, total_time |-> 0, min_time |-> 0, max_time |-> 0]
\* profiler.c before any call: nothing traced; a pid of "none" is pid 0
IdleProfiler ==
    [is_profiling |-> FALSE, profiled_pid |-> "none", should_stop_profiling |-> FALSE,
     syscall_stats |-> [s \in Syscalls |-> NoStat], traced |-> {}]
NoProfOp == [op |-> "none", ret |-> "QSH_SUCCESS", builtins_only |-> TRUE, n |-> 0]
ProfilerIdle ==
    /\ prof = IdleProfiler /\ profiling_enabled = FALSE /\ prof_op = NoProfOp
\* tokenize() has not been called: an empty line, nothing returned
LexIdle ==
    /\ lex_input = <<>> /\ lex_beyond = <<>>
    /\ lex_list = [ok |-> TRUE, tokens |-> <<>>]
    /\ lex_cmd = "none" /\ lex_pc = "idle"
\* evaluate_arithmetic has not been called
ArithIdle == arith_expr = <<>> /\ arith_result = [done |-> FALSE, value |-> 0]
\* the directory the shell is started in
StartDir == "/start"
DirIdle == cwd = StartDir /\ current_dir = NULL /\ previous_dir = NULL /\ cd_log = <<>>
TtyIdle ==
    /\ tty_pgrp = 0 /\ tty_modes = "shell_tmodes" /\ tty_ops = 0
    /\ fg_pc = "idle" /\ fg_jobs = <<>> /\ fg_rounds = 0
FdIdle ==
    /\ fd_table = <<>> /\ fd_before = <<>> /\ redirs = <<>>
    /\ redir_i = 0 /\ saved_fds = <<>> /\ fd_pc = "idle"
UtilIdle == HistoryIdle /\ StoreIdle /\ AliasIdle /\ ProfilerIdle /\ LexIdle /\ ArithIdle /\ DirIdle /\ TtyIdle /\ FdIdle

(***************************************************************************)
(* Helpers of the executor.                                                *)
(***************************************************************************)
IsNull == cur > Len(chain)
Cmd == chain[cur]

\* while (current->next && current->operator == CMD_PIPE) cmd_count++
RECURSIVE CountStages(_, _)
CountStages(c, i) ==
    IF i < Len(c) /\ c[i].op = "PIPE" THEN 1 + CountStages(c, i + 1) ELSE 1

\* a chain step that forgets the || operator
ChainStepNoOr(s) ==
    IF Cmd.op = "AND" /\ s # 0
    THEN pc' = "done" /\ ret' = s /\ cur' = cur
    ELSE pc' = "loop" /\ cur' = cur + 1 /\ ret' = ret

\* the chain step after a node returned status s
ChainStep(s) ==
    IF (Cmd.op = "AND" /\ s # 0) \/ (Cmd.op = "OR" /\ s = 0)
    THEN pc' = "done" /\ ret' = s /\ cur' = cur
    ELSE pc' = "loop" /\ cur' = cur + 1 /\ ret' = ret

\* the chain step after setup_redirections of an internal failed
RedirFailStep ==
    IF Cmd.op = "AND"
    THEN pc' = "done" /\ ret' = 1 /\ cur' = cur
    ELSE pc' = "loop" /\ cur' = cur + 1 /\ ret' = ret

Run(first, last, s, how) == [first |-> first, last |-> last, st |-> s, how |-> how]

(***************************************************************************)
(* Signal dispositions.  The shell sets them before its first prompt and   *)
(* never afterwards; fork copies them to the child and no child of the     *)
(* executor calls signal or sigaction before execvp.                       *)
(***************************************************************************)
Signals == {SIGINT, SIGQUIT, SIGTSTP, SIGTTIN, SIGTTOU, SIGCHLD}
\* the dispositions the shell is started with
StartDispositions == [s \in Signals |-> "SIG_DFL"]

\* if (shell_is_interactive) signal(SIGTTOU / SIGTTIN / SIGTSTP / SIGQUIT, SIG_IGN)
init_job_control(d, tty) ==
    [s \in Signals |->
        IF tty /\ s \in {SIGTTOU, SIGTTIN, SIGTSTP, SIGQUIT} THEN "SIG_IGN" ELSE d[s]]

\* qsh_init: init_job_control, then sigaction for SIGINT, SIGCHLD, SIGTSTP
qsh_init(d, tty) ==
    [s \in Signals |->
        IF s = SIGINT THEN "handle_sigint"
        ELSE IF s = SIGCHLD THEN "handle_sigchld"
        ELSE IF s = SIGTSTP THEN "handle_sigtstp"
        ELSE init_job_control(d, tty)[s]]

\* main(): signal(SIGINT / SIGQUIT / SIGTSTP, SIG_IGN) after qsh_init
setup_signal_handlers(d) ==
    [s \in Signals |-> IF s \in {SIGINT, SIGQUIT, SIGTSTP} THEN "SIG_IGN" ELSE d[s]]

\* the dispositions of the shell at its prompt
ShellDispositions(tty) == setup_signal_handlers(qsh_init(StartDispositions, tty))

\* execvp: a caught signal goes back to the default, an ignored one stays ignored
AfterExec(d) == [s \in Signals |-> IF d[s] = "SIG_IGN" THEN "SIG_IGN" ELSE "SIG_DFL"]

(***************************************************************************)
(* Pipe descriptors.  A descriptor is a number in a process's table that   *)
(* refers to the read or the write end of pipe j, j in 0..k-2.             *)
(***************************************************************************)
\* pipes[j][0] and pipes[j][1], as pipe() numbers them in the shell
ReadFd(j) == 3 + 2 * j
WriteFd(j) == 4 + 2 * j
Descriptor(fd, j, e) == [fd |-> fd, pipe |-> j, end |-> e]
\* the table after pipe(pipes[j]) for every j < cmd_count - 1
PipeFds(k) ==
    UNION {{Descriptor(ReadFd(j), j, "r"), Descriptor(WriteFd(j), j, "w")} : j \in 0..(k - 2)}

Close(F, fd) == {d \in F : d.fd # fd}
Dup2(F, old, new) ==
    IF \E d \in F : d.fd = old
    THEN LET o == CHOOSE d \in F : d.fd = old
         IN Close(F, new) \cup {Descriptor(new, o.pipe, o.end)}
    ELSE F

\* for (j...) if (j != i && j != i - 1) { close(pipes[j][0]); close(pipes[j][1]); }
CloseOthers(F, i, k) ==
    {d \in F : ~\E j \in 0..(k - 2) :
                   j # i /\ j # i - 1 /\ d.fd \in {ReadFd(j), WriteFd(j)}}

\* the pipe set-up of child i of k, from the table F it inherited
ChildPipeSetup(F, i, k) ==
    LET in  == IF i > 0
               THEN Close(Dup2(F, ReadFd(i - 1), 0), WriteFd(i - 1))
               ELSE F
        out == IF i < k - 1
               THEN Close(Dup2(Close(in, ReadFd(i)), WriteFd(i), 1), WriteFd(i))
               ELSE in
    IN CloseOthers(out, i, k)

\* fg: the child whose status the executor reports (a foreground single
\* command, the last stage of a pipeline); the wait word of any other child
\* is forgotten once the child is reaped; fds: the pipe descriptors the child
\* holds, those of the shell at the fork, then those it calls execvp with
NewProc(stage, target, st, fg) ==
    [st |-> st, pgid |-> 0, ws |-> 0, node |-> cur, stage |-> stage,
     target |-> target, fg |-> fg, sigs |-> ShellDispositions(shell_is_interactive),
     fds |-> pl.open]

Pids == 1..Len(procs)
Zombies == {p \in Pids : procs[p].st = "zombie"}
\* stopped children whose stop no waitpid has reported yet
Stopped == {p \in Pids : procs[p].st = "stopped"}
Reaped(pr) == [pr EXCEPT !.st = "reaped", !.ws = IF pr.fg THEN @ ELSE 0]
Reap(ps, p) == [ps EXCEPT ![p] = Reaped(@)]

\* the first job whose pid is p, 0 if none
JobOf(js, p) ==
    IF \E i \in 1..Len(js) : js[i].pid = p
    THEN CHOOSE i \in 1..Len(js) : js[i].pid = p /\ \A j \in 1..(i - 1) : js[j].pid # p
    ELSE 0

\* body of the handler's loop for one reported pid
HandleOne(js, p, ws) ==
    LET i == JobOf(js, p) IN
    IF i # 0 /\ WIFEXITED(ws)
    THEN [js EXCEPT ![i].running = FALSE, ![i].status = WEXITSTATUS(ws)]
    ELSE IF i # 0 /\ WIFSTOPPED(ws)
    THEN [js EXCEPT ![i].running = FALSE]
    ELSE js

\* what the handler's loop prints for one reported pid in interactive mode
PrintOne(js, p, ws) ==
    LET i == JobOf(js, p) IN
    IF i # 0 /\ WIFEXITED(ws) THEN <<[job_id |-> js[i].job_id, what |-> "Done"]>>
    ELSE IF i # 0 /\ WIFSTOPPED(ws) THEN <<[job_id |-> js[i].job_id, what |-> "Stopped"]>>
    ELSE <<>>

RECURSIVE PrintAll(_, _)
PrintAll(js, ps) ==
    IF ps = {} THEN <<>>
    ELSE LET p == CHOOSE q \in ps : \A r \in ps : q <= r
         IN PrintOne(js, p, procs[p].ws) \o PrintAll(js, ps \ {p})

RECURSIVE HandleAll(_, _)
HandleAll(js, ps) ==
    IF ps = {} THEN js
    ELSE LET p == CHOOSE q \in ps : \A r \in ps : q <= r
         IN HandleAll(HandleOne(js, p, procs[p].ws), ps \ {p})

BackgroundJob(pid) ==
    [pid |-> pid, running |-> TRUE, status |-> 0, is_background |-> FALSE, job_id |-> 0]

add_job(pid, bg) ==
    [pid |-> pid, running |-> TRUE, status |-> 0, is_background |-> bg,
     job_id |-> next_job_id]

(***************************************************************************)
(* Initial state: the shell at the prompt, a parsed chain in hand.         *)
(***************************************************************************)
ExecInit ==
    /\ chain \in Chains
    /\ pc = "entry"
    /\ cur = 1
    /\ last_status = 0
    /\ foreground_pgid = 0
    /\ ret = 0
    /\ hist_status = <<>>
    /\ wpid = 0
    /\ pl = NoPl
    /\ procs = <<>>
    /\ jobs = <<>>
    /\ next_job_id = 1
    /\ started = {}
    /\ runs = <<>>

\* qsh_init writes is_interactive into the qsh_state_t of main(), a local
\* that shadows the global shell_state: the global keeps its zero
NoTerminal == shell_is_interactive = FALSE /\ is_interactive = FALSE /\ printed = <<>>
AnyTerminal == shell_is_interactive \in BOOLEAN /\ is_interactive = FALSE /\ printed = <<>>

(***************************************************************************)
(* qsh_execute_command.                                                    *)
(***************************************************************************)
Entry ==
    /\ pc = "entry"
    /\ IF chain[1].kind = "empty"
       THEN pc' = "done" /\ ret' = 0
       ELSE pc' = "loop" /\ ret' = ret
    /\ UNCHANGED <<utilVars, parseVars, termVars, chain, hist_status, cur, last_status, foreground_pgid, wpid, pl>>
    /\ UNCHANGED <<procVars, obsVars>>

LoopExit ==
    /\ pc = "loop" /\ IsNull
    /\ pc' = "done" /\ ret' = 0
    /\ UNCHANGED <<utilVars, parseVars, termVars, chain, hist_status, cur, last_status, foreground_pgid, wpid, pl>>
    /\ UNCHANGED <<procVars, obsVars>>

RunInternal ==
    /\ pc = "loop" /\ ~IsNull /\ Cmd.kind = "internal"
    /\ started' = started \cup {cur}
    /\ \/ \* setup_redirections failed: the handler is not invoked
          /\ last_status' = 1
          /\ runs' = Append(runs, Run(cur, cur, 1, "redir_fail"))
          /\ RedirFailStep
       \/ \E s \in StatusVals :
          /\ last_status' = last_status
          /\ runs' = Append(runs, Run(cur, cur, s, "internal"))
          /\ ChainStep(s)
    /\ UNCHANGED <<utilVars, parseVars, termVars, chain, hist_status, foreground_pgid, wpid, pl, procVars>>

\* qsh_builtin_lookup(NULL): strcmp on a null pointer
EmptyNodeCrash ==
    /\ pc = "loop" /\ ~IsNull /\ Cmd.kind = "empty"
    /\ started' = started \cup {cur}
    /\ pc' = "crashed"
    /\ UNCHANGED <<utilVars, parseVars, termVars, chain, hist_status, cur, last_status, foreground_pgid, ret, wpid, pl>>
    /\ UNCHANGED <<procVars, runs>>

IsExternal == Cmd.kind = "external"

ForkSingle ==
    /\ pc = "loop" /\ ~IsNull /\ IsExternal /\ Cmd.op # "PIPE"
    /\ started' = started \cup {cur}
    /\ procs' = Append(procs, NewProc(0, 0, "running", Cmd.op # "BACKGROUND"))
    /\ IF Cmd.op = "BACKGROUND"
       THEN /\ jobs' = IF Len(jobs) < MAX_JOBS
                       THEN Append(jobs, BackgroundJob(Len(procs) + 1))
                       ELSE jobs
            /\ cur' = cur + 1 /\ pc' = "loop" /\ wpid' = wpid
       ELSE /\ jobs' = jobs
            /\ cur' = cur /\ pc' = "wait" /\ wpid' = Len(procs) + 1
    /\ UNCHANGED <<utilVars, parseVars, termVars, chain, hist_status, last_status, foreground_pgid, ret, pl, next_job_id, runs>>

ForkSingleFail ==
    /\ pc = "loop" /\ ~IsNull /\ IsExternal /\ Cmd.op # "PIPE"
    /\ started' = started \cup {cur}
    /\ pc' = "done" /\ ret' = 1
    /\ UNCHANGED <<utilVars, parseVars, termVars, chain, hist_status, cur, last_status, foreground_pgid, wpid, pl>>
    /\ UNCHANGED <<procVars, runs>>

WaitSingle ==
    /\ pc = "wait"
    /\ \E ws \in WaitWords :
       /\ \/ /\ procs[wpid].st = "zombie"
             /\ ws = procs[wpid].ws
             /\ procs' = Reap(procs, wpid)
          \/ \* already reaped by the handler: waitpid fails, status is not written
             /\ procs[wpid].st = "reaped"
             /\ procs' = procs
       /\ last_status' = Decode(ws)
       /\ runs' = Append(runs, Run(cur, cur, Decode(ws), "external"))
       /\ ChainStep(Decode(ws))
    /\ UNCHANGED <<utilVars, parseVars, termVars, chain, hist_status, foreground_pgid, wpid, pl, jobs, next_job_id, started>>

(***************************************************************************)
(* execute_pipeline.                                                       *)
(***************************************************************************)
PipelineEnter ==
    /\ pc = "loop" /\ ~IsNull /\ IsExternal /\ Cmd.op = "PIPE"
    /\ started' = started \cup {cur}
    /\ IF cur = Len(chain)
       THEN pc' = "done" /\ ret' = -1 /\ pl' = pl
       ELSE /\ pc' = "pl_pipes" /\ ret' = ret
            /\ pl' = [NoPl EXCEPT !.first = cur, !.k = CountStages(chain, cur)]
    /\ UNCHANGED <<utilVars, parseVars, termVars, chain, hist_status, cur, last_status, foreground_pgid, wpid>>
    /\ UNCHANGED <<procVars, runs>>

PipelinePipes ==
    /\ pc = "pl_pipes"
    /\ \/ /\ pc' = "pl_fork" /\ ret' = ret
          /\ pl' = [pl EXCEPT !.pipes = pl.k - 1, !.open = PipeFds(pl.k)]
       \/ \* pipe() failed: the pipes made so far are closed
          pc' = "done" /\ pl' = pl /\ ret' = -1
    /\ UNCHANGED <<utilVars, parseVars, termVars, chain, hist_status, cur, last_status, foreground_pgid, wpid>>
    /\ UNCHANGED <<procVars, obsVars>>

PipelineFork ==
    /\ pc = "pl_fork"
    /\ procs' = Append(procs, [NewProc(pl.i + 1, pl.first_pid, "forked",
                                         pl.i + 1 = pl.k)
                                 EXCEPT !.node = pl.first + pl.i])
    /\ pl' = [pl EXCEPT !.pids = Append(pl.pids, Len(procs) + 1),
                        !.first_pid = IF pl.i = 0 THEN Len(procs) + 1 ELSE pl.first_pid,
                        !.i = pl.i + 1]
    /\ pc' = IF pl.i + 1 = pl.k THEN "pl_job" ELSE "pl_fork"
    /\ UNCHANGED <<utilVars, parseVars, termVars, chain, hist_status, cur, last_status, foreground_pgid, ret, wpid>>
    /\ UNCHANGED <<jobs, next_job_id, obsVars>>

\* fork() failed: kill(pids[j], SIGTERM) for the stages already forked
PipelineForkFail ==
    /\ pc = "pl_fork"
    /\ procs' = [p \in Pids |->
                   IF (\E j \in 1..Len(pl.pids) : pl.pids[j] = p)
                      /\ procs[p].st \in {"forked", "running"}
                   THEN [procs[p] EXCEPT !.st = "zombie", !.ws = SIGTERM]
                   ELSE procs[p]]
    /\ pc' = "done" /\ ret' = -1
    /\ pl' = [pl EXCEPT !.open = {}]
    /\ UNCHANGED <<utilVars, parseVars, termVars, chain, hist_status, cur, last_status, foreground_pgid, wpid>>
    /\ UNCHANGED <<jobs, next_job_id, obsVars>>

PipelineAddJob ==
    /\ pc = "pl_job"
    /\ IF Len(jobs) < MAX_JOBS
       THEN /\ jobs' = Append(jobs, add_job(pl.first_pid, FALSE))
            /\ next_job_id' = next_job_id + 1
       ELSE UNCHANGED <<jobs, next_job_id>>
    /\ foreground_pgid' = pl.first_pid
    /\ pl' = [pl EXCEPT !.open = {}]
    /\ pc' = "pl_fg"
    /\ UNCHANGED <<utilVars, parseVars, termVars, chain, hist_status, cur, last_status, ret, wpid, procs, obsVars>>

\* children of the shell, not yet reaped, whose process group is g
GroupChildren(g) == {p \in Pids : procs[p].pgid = g /\ procs[p].st # "reaped"}

\* put_process_in_foreground(first_pid, true): waitpid(-pgid, &status, WUNTRACED)
put_process_in_foreground ==
    /\ pc = "pl_fg"
    /\ \/ \E p \in GroupChildren(pl.first_pid) :
             /\ procs[p].st \in {"zombie", "stopped"}
             /\ procs' = IF procs[p].st = "zombie" THEN Reap(procs, p)
                         ELSE [procs EXCEPT ![p].st = "stopped_reported"]
       \/ \* no child in that group: waitpid fails with ECHILD
          GroupChildren(pl.first_pid) = {} /\ procs' = procs
    /\ foreground_pgid' = 0
    /\ pl' = [pl EXCEPT !.i = 0]
    /\ pc' = "pl_wait"
    /\ UNCHANGED <<utilVars, parseVars, termVars, chain, hist_status, cur, last_status, ret, wpid, jobs, next_job_id, obsVars>>

PipelineWait ==
    /\ pc = "pl_wait"
    /\ LET p == pl.pids[pl.i + 1] IN
       \E ws \in WaitWords :
       /\ \/ procs[p].st = "zombie" /\ ws = procs[p].ws /\ procs' = Reap(procs, p)
          \/ \* already reaped: waitpid fails, status is not written
             procs[p].st = "reaped" /\ procs' = procs
       /\ pl' = [pl EXCEPT !.i = pl.i + 1,
                           !.exit_status = IF pl.i = pl.k - 1 THEN Decode(ws)
                                           ELSE pl.exit_status]
    /\ pc' = IF pl.i + 1 = pl.k THEN "pl_ret" ELSE "pl_wait"
    /\ UNCHANGED <<utilVars, parseVars, termVars, chain, hist_status, cur, last_status, foreground_pgid, ret, wpid>>
    /\ UNCHANGED <<jobs, next_job_id, obsVars>>

PipelineReturn ==
    /\ pc = "pl_ret"
    /\ last_status' = pl.exit_status
    /\ ret' = pl.exit_status
    /\ pc' = "done"
    /\ runs' = Append(runs, Run(pl.first, pl.first + pl.k - 1, pl.exit_status, "pipeline"))
    /\ UNCHANGED <<utilVars, parseVars, termVars, chain, hist_status, cur, foreground_pgid, wpid, pl, procVars, started>>

(***************************************************************************)
(* The children and the SIGCHLD handler.                                   *)
(***************************************************************************)
\* the model follows one call of qsh_execute_command until it returns
Executing == pc \notin {"done", "crashed", "prompt"}

\* setpgid(0, 0) in stage 0, setpgid(0, first_pid) in the later stages
ChildSetpgid(p) ==
    /\ Executing
    /\ procs[p].st = "forked"
    /\ LET g == IF procs[p].target = 0 THEN p ELSE procs[p].target
           ok == g = p \/ \E q \in Pids : procs[q].pgid = g /\ procs[q].st # "reaped"
       IN procs' = [procs EXCEPT ![p].st = "running",
                                 ![p].pgid = IF ok THEN g ELSE @,
                                 ![p].fds = ChildPipeSetup(@, procs[p].stage - 1, pl.k)]
    /\ UNCHANGED <<utilVars, parseVars, termVars, execVars, jobs, next_job_id, obsVars>>

ChildExit(p) ==
    /\ Executing
    /\ procs[p].st = "running"
    /\ \E ws \in WaitWords : procs' = [procs EXCEPT ![p].st = "zombie", ![p].ws = ws]
    /\ UNCHANGED <<utilVars, parseVars, termVars, execVars, jobs, next_job_id, obsVars>>

\* SIGCHLD is installed with SA_NOCLDSTOP: a termination raises it, a stop
\* does not; once running, the handler's waitpid(-1, WNOHANG | WUNTRACED)
\* loop takes every terminated child and every stop not yet reported
handle_sigchld ==
    /\ Executing
    /\ Zombies # {}
    /\ procs' = [p \in Pids |-> IF p \in Zombies THEN Reaped(procs[p])
                                ELSE IF p \in Stopped
                                THEN [procs[p] EXCEPT !.st = "stopped_reported"]
                                ELSE procs[p]]
    /\ jobs' = HandleAll(jobs, Zombies \cup Stopped)
    /\ printed' = IF is_interactive
                  THEN printed \o PrintAll(jobs, Zombies \cup Stopped)
                  ELSE printed
    /\ UNCHANGED <<utilVars, parseVars, shell_is_interactive, is_interactive, execVars,
                   next_job_id, obsVars>>

\* a stop signal for the foreground process group (SIGTSTP from the
\* terminal, whose foreground group put_process_in_foreground has made the
\* pipeline's) while the shell waits in put_process_in_foreground
StopForeground ==
    /\ pc = "pl_fg"
    /\ \E p \in Pids : procs[p].pgid = foreground_pgid /\ procs[p].st = "running"
    /\ procs' = [p \in Pids |->
                    IF procs[p].pgid = foreground_pgid /\ procs[p].st = "running"
                    THEN [procs[p] EXCEPT !.st = "stopped", !.ws = StopWord(SIGTSTP)]
                    ELSE procs[p]]
    /\ UNCHANGED <<utilVars, parseVars, termVars, execVars, jobs, next_job_id, obsVars>>

\* main(): int status = qsh_execute_command(cmd); qsh_history_add(input, status)
main_record ==
    /\ pc = "done"
    /\ hist_status' = Append(hist_status, ret)
    /\ pc' = "prompt"
    /\ UNCHANGED <<utilVars, parseVars, termVars, chain, cur, last_status, foreground_pgid, ret, wpid, pl>>
    /\ UNCHANGED <<procVars, obsVars>>

Next ==
    \/ Entry
    \/ LoopExit
    \/ RunInternal
    \/ EmptyNodeCrash
    \/ ForkSingle
    \/ ForkSingleFail
    \/ WaitSingle
    \/ PipelineEnter
    \/ PipelinePipes
    \/ PipelineFork
    \/ PipelineForkFail
    \/ PipelineAddJob
    \/ put_process_in_foreground
    \/ PipelineWait
    \/ PipelineReturn
    \/ \E p \in Pids : ChildSetpgid(p)
    \/ \E p \in Pids : ChildExit(p)
    \/ handle_sigchld
    \/ main_record

\* the executor runs on a chain; the parser is not running
ParseIdle == tokens = <<>> /\ tok_i = 0 /\ cmds = <<>> /\ parse_pc = "idle"

Init == ExecInit /\ NoTerminal /\ ParseIdle /\ UtilIdle

Spec == Init /\ [][Next]_vars

(***************************************************************************)
(* Job control: external commands, pipelines and background jobs run from  *)
(* a terminal or not, with stop signals for the foreground group.  The     *)
(* kernel schedules the shell and its children: a step that stays possible *)
(* is taken.                                                               *)
(***************************************************************************)
JobChains == {c \in Chains : \A i \in 1..Len(c) :
                 c[i].kind = "external" /\ c[i].op \in {"NONE", "PIPE", "BACKGROUND"}}

JobControlInit == ExecInit /\ chain \in JobChains /\ AnyTerminal /\ ParseIdle /\ UtilIdle

JobControlNext ==
    \/ Entry
    \/ LoopExit
    \/ ForkSingle
    \/ ForkSingleFail
    \/ WaitSingle
    \/ PipelineEnter
    \/ PipelinePipes
    \/ PipelineFork
    \/ PipelineForkFail
    \/ PipelineAddJob
    \/ put_process_in_foreground
    \/ PipelineWait
    \/ PipelineReturn
    \/ \E p \in Pids : ChildSetpgid(p)
    \/ \E p \in Pids : ChildExit(p)
    \/ handle_sigchld
    \/ StopForeground
    \/ main_record

SpecJobControl == JobControlInit /\ [][JobControlNext]_vars /\ WF_vars(JobControlNext)

(***************************************************************************)
(* Readers of the job table.                                               *)
(***************************************************************************)
\* qsh_job_count: the entries whose running flag is set
qsh_job_count == Cardinality({j \in 1..Len(jobs) : jobs[j].running})
\* the lines the `jobs` builtin prints: one for every entry with pid > 0
qsh_builtin_jobs ==
    [j \in 1..Len(SelectSeq(jobs, LAMBDA e : e.pid > 0)) |->
        LET e == SelectSeq(jobs, LAMBDA x : x.pid > 0)[j] IN
        [job_id |-> e.job_id, status |-> IF e.running THEN "Running" ELSE "Stopped"]]

(***************************************************************************)
(* Shell variables (utils/tokenizer.c): the chained hash table var_table   *)
(* and the process environment.                                            *)
(***************************************************************************)
VarValues == {"x", "y"}

\* isalnum(c) || c == '_'
IsNameChar(c) == c \in (48..57) \cup (65..90) \cup (97..122) \cup {95}
ValidName(name) == name # <<>> /\ \A i \in 1..Len(name) : IsNameChar(name[i])

\* a lookup that takes the head of the bucket without comparing names
find_var_any(t, name) ==
    IF t[hash_var_name(name)] # <<>> THEN 1 ELSE 0

\* find_var: position in its bucket of the first entry named name, 0 if none
find_var(t, name) ==
    LET b == t[hash_var_name(name)]
    IN IF \E i \in 1..Len(b) : b[i].name = name
       THEN CHOOSE i \in 1..Len(b) : b[i].name = name /\ \A j \in 1..(i - 1) : b[j].name # name
       ELSE 0

VarEntry(name, value, exported) == [name |-> name, value |-> value, exported |-> exported]
\* entry->next = var_table[index]; var_table[index] = entry
InsertVar(t, e) == [t EXCEPT ![hash_var_name(e.name)] = <<e>> \o @]

\* qsh_variables_init: every name of the environment becomes an exported
\* variable (setenv with the value it has leaves the environment as it is)
RECURSIVE LoadEnviron(_, _, _)
LoadEnviron(t, env, names) ==
    IF names = {} THEN t
    ELSE LET n == CHOOSE m \in names : TRUE
         IN LoadEnviron(IF env[n] # NULL THEN InsertVar(t, VarEntry(n, env[n], TRUE)) ELSE t,
                        env, names \ {n})
Initialized(t, env) == IF variables_initialized THEN t ELSE LoadEnviron(t, env, VarNames)

\* qsh_variable_get: the shell variable, else getenv
VariableGet(t, env, name) ==
    IF find_var(t, name) # 0
    THEN t[hash_var_name(name)][find_var(t, name)].value
    ELSE env[name]
qsh_variable_get(name) == VariableGet(var_table, environ, name)

StoreOp(op, name, value, exported, r) ==
    [op |-> op, name |-> name, value |-> value, exported |-> exported, ret |-> r]

\* the store as one value: the table, the environment, the flag
\* variables_initialized, and the last call with its result
Store ==
    [table |-> var_table, environ |-> environ,
     initialized |-> variables_initialized, op |-> store_op]

\* qsh_variable_set(name, value, exported) on the store S, every
\* allocation succeeding
SetVariable(S, name, value, exported) ==
    LET t == IF S.initialized THEN S.table ELSE LoadEnviron(S.table, S.environ, VarNames)
        b == hash_var_name(name)
        i == find_var(t, name)
    IN IF ~ValidName(name)
       THEN [S EXCEPT !.table = t, !.initialized = TRUE,
                      !.op = StoreOp("set", name, value, exported, -1)]
       ELSE IF i # 0
       THEN [table |-> [t EXCEPT ![b][i].value = value, ![b][i].exported = exported],
             environ |-> [S.environ EXCEPT ![name] = IF exported THEN value ELSE NULL],
             initialized |-> TRUE,
             op |-> StoreOp("set", name, value, exported, 0)]
       ELSE [table |-> InsertVar(t, VarEntry(name, value, exported)),
             environ |-> IF exported THEN [S.environ EXCEPT ![name] = value] ELSE S.environ,
             initialized |-> TRUE,
             op |-> StoreOp("set", name, value, exported, 0)]

(***************************************************************************)
(* The parser: qsh_parse_command over the token list of one line.          *)
(***************************************************************************)
\* what getpwuid() gives for the current user
HomeDir == "/home/u"

\* token types and the token values the lines are made of
WordTokens == {[type |-> "LITERAL", value |-> v] : v \in {"w", "~", "*", "c=x"}}
                 \cup {[type |-> "QUOTED", value |-> "w"]}
CmdSubTokens == {[type |-> "CMD_SUB", value |-> "sub"]}
OperatorTokens == {[type |-> "OPERATOR", value |-> v] : v \in {"|", "&&", "||", "&", ";"}}
RedirTokens == {[type |-> "REDIRECTION", value |-> v] : v \in {">", "2>&1"}}
Tokens == WordTokens \cup CmdSubTokens \cup OperatorTokens \cup RedirTokens
PlainAndRedirTokens == {[type |-> "LITERAL", value |-> "w"]} \cup RedirTokens
\* the lines parsed: short ones over every token, longer ones of words and
\* redirections (a node takes a fifth redirection only from the fifth token on)
TokenLists == UNION {[1..n -> Tokens] : n \in 1..MaxTokens}
                 \cup UNION {[1..n -> PlainAndRedirTokens] : n \in 1..MaxRedirTokens}

\* calloc'ed node with operator CMD_NONE.  The arrays argv[MAX_ARGS] and
\* redirections[MAX_REDIRECTIONS] are kept as the slots written so far; a
\* slot never written holds the zero calloc gave it.
create_command ==
    [cmd |-> NULL, argv |-> <<>>, argc |-> 0, operator |-> "NONE",
     redirections |-> <<>>, redir_count |-> 0]

\* argv[k] and redirections[k], k counted from 0 as in the source
ArgvAt(c, k) == IF k < Len(c.argv) THEN c.argv[k + 1] ELSE NULL
RedirAt(c, k) ==
    IF k < Len(c.redirections) THEN c.redirections[k + 1]
    ELSE [type |-> "REDIR_NONE", filename |-> NULL]
\* a[k] = v on an array kept as its written slots
SetSlot(a, k, v, zero) ==
    IF k < Len(a) THEN [a EXCEPT ![k + 1] = v]
    ELSE IF k = Len(a) THEN Append(a, v)
    ELSE Append(a \o [j \in 1..(k - Len(a)) |-> zero], v)

has_glob_chars(str) == str \in {"*"}
StartsWithTilde(path) == path \in {"~"}
\* strchr(token->value, '=') finds a '=' that is not the first character
HasAssignment(value) == value \in {"c=x", "aR=y"}
\* var_name = strndup(value, eq - value) and var_value = strdup(eq + 1)
SplitAssignment(value) ==
    CASE value = "c=x" -> [name |-> <<99>>, value |-> "x"]
      [] value = "aR=y" -> [name |-> <<97, 82>>, value |-> "y"]

\* getpwuid()/getpwnam() in expand_tilde: entry found or not
PwOutcomes(path) == IF StartsWithTilde(path) THEN {"found", "notfound"} ELSE {"notfound"}
\* expand_tilde writes the home directory over a path that starts with ~
expand_tilde(path, pw) ==
    IF path = NULL \/ ~StartsWithTilde(path) THEN path
    ELSE IF pw = "found" THEN HomeDir ELSE path
\* strcpy() of the longer expansion into the strdup'ed buffer of the word
TildeOverflows(path, pw) == StartsWithTilde(path) /\ pw = "found"

\* expand_glob: NULL on a glob() error, the pattern itself on GLOB_NOMATCH,
\* otherwise the matched paths
GlobNull == [ok |-> FALSE, paths |-> <<>>]
Glob(paths) == [ok |-> TRUE, paths |-> paths]
Matches(n) == [k \in 1..n |-> "m"]
GlobOutcomes(arg) ==
    IF has_glob_chars(arg)
    THEN {GlobNull, Glob(<<arg>>), Glob(Matches(2)), Glob(Matches(MAX_ARGS))}
    ELSE {GlobNull}

\* the plain branch of add_argument
AddPlain(c, arg) ==
    IF c.argc >= MAX_ARGS - 1 THEN c
    ELSE [c EXCEPT !.cmd = IF c.argc = 0 THEN arg ELSE @,
                   !.argv = SetSlot(SetSlot(@, c.argc, arg, NULL), c.argc + 1, NULL, NULL),
                   !.argc = @ + 1]

Min(a, b) == IF a <= b THEN a ELSE b
Max(a, b) == IF a >= b THEN a ELSE b
\* the loop of add_argument over the expanded paths: it runs while paths
\* are left and argc < MAX_ARGS - 1, storing path j in argv[argc + j - 1]
\* (and in cmd when argc was 0); then argv[argc] = NULL
AddExpanded(c, expanded) ==
    LET n == Min(Len(expanded), Max(0, (MAX_ARGS - 1) - c.argc))
        len == Max(Len(c.argv), c.argc + n + 1)
    IN [c EXCEPT !.cmd = IF c.argc = 0 /\ n >= 1 THEN expanded[1] ELSE @,
                 !.argv = [j \in 1..len |->
                              IF j - 1 >= c.argc /\ j - 1 < c.argc + n
                              THEN expanded[j - c.argc]
                              ELSE IF j - 1 = c.argc + n THEN NULL
                              ELSE ArgvAt(c, j - 1)],
                 !.argc = @ + n]

add_argument(c, arg, expanded) ==
    IF has_glob_chars(arg) /\ expanded.ok
    THEN AddExpanded(c, expanded.paths)
    ELSE AddPlain(c, arg)

\* index of the first token that is no assignment
RECURSIVE process_variable_assignments(_, _)
process_variable_assignments(toks, k) ==
    IF k < Len(toks) /\ toks[k + 1].type = "LITERAL" /\ HasAssignment(toks[k + 1].value)
    THEN process_variable_assignments(toks, k + 1)
    ELSE k

\* the store after the loop of process_variable_assignments has handled
\* tokens 0..k-1: qsh_variable_set(var_name, var_value, false) for each
RECURSIVE AssignAll(_, _, _)
AssignAll(S, toks, k) ==
    IF k = 0 THEN S
    ELSE LET a == SplitAssignment(toks[k].value)
         IN SetVariable(AssignAll(S, toks, k - 1), a.name, a.value, FALSE)

Token == tokens[tok_i + 1]
current_cmd == cmds[Len(cmds)]
SetCurrent(c) == [cmds EXCEPT ![Len(cmds)] = c]
InLoop == parse_pc = "loop" /\ tok_i < Len(tokens)

\* qsh_free_command(first_cmd); return NULL
ParseFail == parse_pc' = "NULL" /\ cmds' = <<>> /\ tok_i' = tok_i

OperatorOf(value) ==
    CASE value = "|" -> "PIPE"
      [] value = "&&" -> "AND"
      [] value = "||" -> "OR"
      [] value = "&" -> "BACKGROUND"
      [] value = ";" -> "NONE"

RedirTypeOf(value) ==
    CASE value = "<" -> "REDIR_INPUT"
      [] value = ">" -> "REDIR_OUTPUT"
      [] value = ">>" -> "REDIR_APPEND"
      [] value = "2>" -> "REDIR_ERR_OUT"
      [] value = "2>>" -> "REDIR_ERR_APPEND"
      [] value = "2>&1" -> "REDIR_ERR_TO_OUT"
      [] value = "<<" -> "REDIR_HEREDOC"
      [] OTHER -> "REDIR_NONE"

\* the executor is not running while a line is parsed
ExecIdle ==
    /\ chain = <<>> /\ pc = "prompt" /\ cur = 1 /\ last_status = 0
    /\ foreground_pgid = 0 /\ ret = 0 /\ hist_status = <<>> /\ wpid = 0
    /\ pl = NoPl /\ procs = <<>> /\ jobs = <<>> /\ next_job_id = 1
    /\ started = {} /\ runs = <<>>

ParseInit ==
    /\ ExecIdle
    /\ NoTerminal
    /\ UtilIdle
    /\ tokens \in TokenLists
    /\ tok_i = 0
    /\ cmds = <<>>
    /\ parse_pc = "start"

\* leading assignments are carried out on the variable store and consumed;
\* a line of assignments only has no chain
ParseBegin ==
    /\ parse_pc = "start"
    /\ LET start_idx == process_variable_assignments(tokens, 0) IN
       IF start_idx >= Len(tokens)
       THEN parse_pc' = "NULL" /\ cmds' = cmds /\ tok_i' = tok_i
       ELSE parse_pc' = "loop" /\ cmds' = <<create_command>> /\ tok_i' = start_idx
    /\ LET S == AssignAll(Store, tokens, process_variable_assignments(tokens, 0)) IN
       /\ var_table' = S.table
       /\ environ' = S.environ
       /\ variables_initialized' = S.initialized
       /\ store_op' = S.op
    /\ UNCHANGED <<tokens, execVars, procVars, obsVars, termVars, notStoreUtilVars>>

ParseOperator ==
    /\ InLoop
    /\ Token.type = "OPERATOR"
    /\ LET c == [current_cmd EXCEPT !.operator = OperatorOf(Token.value)] IN
       IF tok_i < Len(tokens) - 1
       THEN cmds' = Append(SetCurrent(c), create_command)
       ELSE cmds' = SetCurrent(c)
    /\ tok_i' = tok_i + 1
    /\ UNCHANGED <<tokens, parse_pc, execVars, procVars, obsVars, termVars, utilVars>>

\* a check of the redirection branch that lets a node take one entry more
TooManyRedirectionsOffByOne(c) == c.redir_count > MAX_REDIRECTIONS
\* the two checks that open the redirection branch
TooManyRedirections(c) == c.redir_count >= MAX_REDIRECTIONS
MissingTarget == tok_i + 1 >= Len(tokens)

\* redir = &redirections[redir_count] is filled in and redir_count++
SetRedir(c, type, filename) ==
    [c EXCEPT !.redirections = SetSlot(@, c.redir_count,
                                       [type |-> type, filename |-> filename],
                                       [type |-> "REDIR_NONE", filename |-> NULL]),
              !.redir_count = @ + 1]

ParseRedirection ==
    /\ InLoop
    /\ Token.type = "REDIRECTION"
    /\ IF TooManyRedirections(current_cmd) THEN ParseFail
       ELSE IF MissingTarget THEN ParseFail
       ELSE LET type == RedirTypeOf(Token.value) IN
            IF type = "REDIR_ERR_TO_OUT"
            THEN /\ cmds' = SetCurrent(SetRedir(current_cmd, type, NULL))
                 /\ tok_i' = tok_i + 1
                 /\ parse_pc' = parse_pc
            ELSE LET target == tokens[tok_i + 2].value IN
                 \E pw \in PwOutcomes(IF type = "REDIR_HEREDOC" THEN NULL ELSE target) :
                    IF type # "REDIR_HEREDOC" /\ TildeOverflows(target, pw)
                    THEN \/ /\ cmds' = SetCurrent(SetRedir(current_cmd, type,
                                                         expand_tilde(target, pw)))
                            /\ tok_i' = tok_i + 2
                            /\ parse_pc' = parse_pc
                         \/ parse_pc' = "crashed" /\ cmds' = cmds /\ tok_i' = tok_i + 1
                    ELSE /\ cmds' = SetCurrent(SetRedir(current_cmd, type, target))
                         /\ tok_i' = tok_i + 2
                         /\ parse_pc' = parse_pc
    /\ UNCHANGED <<tokens, execVars, procVars, obsVars, termVars, utilVars>>

\* the substituted command gives no output, or its output becomes a word
ParseCmdSub ==
    /\ InLoop
    /\ Token.type = "CMD_SUB"
    /\ \E output \in {NULL, "out"} :
          IF output = NULL
          THEN cmds' = cmds /\ tok_i' = tok_i + 1 /\ parse_pc' = parse_pc
          ELSE IF current_cmd.argc >= MAX_ARGS - 1 THEN ParseFail
          ELSE \E expanded \in GlobOutcomes(output) :
                  /\ cmds' = SetCurrent(add_argument(current_cmd, output, expanded))
                  /\ tok_i' = tok_i + 1
                  /\ parse_pc' = parse_pc
    /\ UNCHANGED <<tokens, execVars, procVars, obsVars, termVars, utilVars>>

ParseWord ==
    /\ InLoop
    /\ Token.type \in {"LITERAL", "QUOTED", "VARIABLE"}
    /\ IF current_cmd.argc >= MAX_ARGS - 1 THEN ParseFail
       ELSE \E expanded \in GlobOutcomes(Token.value) :
            LET c == add_argument(current_cmd, Token.value, expanded)
                last == ArgvAt(c, c.argc - 1)
            IN
            \E pw \in PwOutcomes(IF Token.type = "LITERAL" THEN last ELSE NULL) :
               IF Token.type = "LITERAL" /\ TildeOverflows(last, pw)
               THEN \/ /\ cmds' = SetCurrent([c EXCEPT !.argv = SetSlot(@, c.argc - 1,
                                                        expand_tilde(last, pw), NULL)])
                       /\ tok_i' = tok_i + 1
                       /\ parse_pc' = parse_pc
                    \/ parse_pc' = "crashed" /\ cmds' = cmds /\ tok_i' = tok_i
               ELSE /\ cmds' = SetCurrent(c)
                    /\ tok_i' = tok_i + 1
                    /\ parse_pc' = parse_pc
    /\ UNCHANGED <<tokens, execVars, procVars, obsVars, termVars, utilVars>>

\* the loop is over: return first_cmd
ParseReturn ==
    /\ parse_pc = "loop"
    /\ tok_i >= Len(tokens)
    /\ parse_pc' = "chain"
    /\ UNCHANGED <<tokens, tok_i, cmds, execVars, procVars, obsVars, termVars, utilVars>>

ParseNext ==
    \/ ParseBegin
    \/ ParseOperator
    \/ ParseRedirection
    \/ ParseCmdSub
    \/ ParseWord
    \/ ParseReturn

SpecParse == ParseInit /\ [][ParseNext]_vars

(***************************************************************************)
(* Claims about the executor.                                              *)
(***************************************************************************)
Returned == pc \in {"done", "prompt"}
LastRun == runs[Len(runs)]
MaxOf(S) == CHOOSE x \in S : \A y \in S : y <= x

\* the node after node a has been started, or is the one the loop is at
Reached(a) == a + 1 \in started \/ (pc = "loop" /\ cur = a + 1)

\* C1: for a chain A && B (A || B) whose left side A is a single command
\* node, internal or external, for which the executor obtained status s, the
\* executor goes on to B if and only if s = 0 (s # 0).
C1_ShortCircuit ==
    \A j \in 1..Len(runs) :
        LET r == runs[j]
            a == r.first
        IN (r.how # "pipeline" /\ a < Len(chain)) =>
             /\ chain[a].op = "AND" => (Reached(a) <=> r.st = 0)
             /\ chain[a].op = "OR" => (Reached(a) <=> r.st # 0)

\* an external A of A && B returned 0 and B was started, and B, the left side
\* of B || C, returned 0 and C was not started
C1_Witness ==
    /\ Returned
    /\ Len(chain) = 3 /\ Len(runs) = 2
    /\ chain[1].op = "AND" /\ chain[2].op = "OR"
    /\ runs[1].how = "external" /\ runs[1].st = 0 /\ 2 \in started
    /\ runs[2].st = 0 /\ 3 \notin started

\* C2: after a pipeline has finished with status s, the executor goes on
\* with the node after the last stage: always after `;`, iff s = 0 after
\* `&&`, iff s # 0 after `||`.
C2_ContinuesAfterPipeline ==
    Returned =>
      \A j \in 1..Len(runs) :
        LET r == runs[j] IN
        (r.how = "pipeline" /\ r.last < Len(chain)) =>
          /\ chain[r.last].op = "NONE" => r.last + 1 \in started
          /\ chain[r.last].op = "AND" => (r.last + 1 \in started <=> r.st = 0)
          /\ chain[r.last].op = "OR" => (r.last + 1 \in started <=> r.st # 0)

\* C3: when execute_pipeline has returned, last_status is the exit status of
\* the rightmost stage, whoever reaped the stages and in whatever order.
C3_PipelineStatusIsRightmost ==
    (Returned /\ Len(runs) > 0 /\ LastRun.how = "pipeline") =>
        last_status = Decode(procs[pl.pids[pl.k]].ws)

\* C4: after a command node has been run with status s, last_status = s
\* before the next node is started and when qsh_execute_command returns.
C4_LastStatusRecorded ==
    (pc \in {"loop", "done", "prompt"} /\ Len(runs) > 0) => last_status = LastRun.st

\* C5: qsh_execute_command returns the status of the last command node it
\* executed, and main() records that value in the history.
C5_ReturnsLastStatus ==
    (Len(runs) > 0 /\ started # {} /\ LastRun.last = MaxOf(started)) =>
        /\ Returned => ret = LastRun.st
        /\ pc = "prompt" => hist_status = <<LastRun.st>>

\* C6: a pipeline of k stages has k-1 pipes and k children, and once every
\* child has made its setpgid call all of them are in the process group of
\* the first child.
C6_PipelineOneGroup ==
    (pl.k >= 2 /\ pc \in {"pl_job", "pl_fg", "pl_wait", "pl_ret", "done", "prompt"}
       /\ Len(pl.pids) = pl.k
       /\ \A j \in 1..pl.k : procs[pl.pids[j]].st # "forked") =>
        /\ pl.pipes = pl.k - 1
        /\ Cardinality({p \in Pids : procs[p].stage > 0}) = pl.k
        /\ \A j \in 1..pl.k : procs[pl.pids[j]].pgid = pl.pids[1]

(***************************************************************************)
(* Claims about the parser.                                                *)
(***************************************************************************)
Parsed == parse_pc = "chain"
HasNext(n) == n < Len(cmds)
\* the number of entries of argv before its first null
ArgvCount(c) ==
    CHOOSE n \in 0..MAX_ARGS :
        /\ n = MAX_ARGS \/ ArgvAt(c, n) = NULL
        /\ \A k \in 0..(n - 1) : ArgvAt(c, k) # NULL

\* C7: a line that ends in |, && or || with nothing to its right is
\* rejected, so in a returned chain every node whose operator is PIPE, AND
\* or OR has a next node.
C7_TrailingOperatorRejected ==
    Parsed => \A n \in 1..Len(cmds) :
                 cmds[n].operator \in {"PIPE", "AND", "OR"} => HasNext(n)

\* C8: every node of a returned chain has argc >= 1 and a non-null argv[0].
C8_ArgvNonEmpty ==
    Parsed => \A n \in 1..Len(cmds) :
                 cmds[n].argc >= 1 /\ ArgvAt(cmds[n], 0) # NULL

\* C9: in every node of a returned chain argv has exactly argc entries
\* before its terminating null, argv[0] equals cmd, and redir_count is
\* between 0 and MAX_REDIRECTIONS.
C9_NodeWellFormed ==
    Parsed => \A n \in 1..Len(cmds) :
                 /\ ArgvCount(cmds[n]) = cmds[n].argc
                 /\ ArgvAt(cmds[n], 0) = cmds[n].cmd
                 /\ cmds[n].redir_count \in 0..MAX_REDIRECTIONS

C11_ErrToOutNoTarget ==
    [][(/\ InLoop
        /\ Token = [type |-> "REDIRECTION", value |-> "2>&1"]
        /\ current_cmd.redir_count < MAX_REDIRECTIONS)
          => /\ parse_pc' = "loop"
             /\ tok_i' = tok_i + 1
             /\ Len(cmds') = Len(cmds)
             /\ cmds'[Len(cmds')].redir_count = current_cmd.redir_count + 1
             /\ RedirAt(cmds'[Len(cmds')], current_cmd.redir_count)
                   = [type |-> "REDIR_ERR_TO_OUT", filename |-> NULL]]_vars

\* C12: a word, the paths its glob expansion yields, or the output of a
\* command substitution either all enter the node's argv or the parse
\* fails: no returned node has lost an argument to the argv bound.
C12_NoArgumentDropped ==
    [][(InLoop /\ Token.type \in {"LITERAL", "QUOTED", "VARIABLE"})
          => \/ parse_pc' \in {"NULL", "crashed"}
             \/ \E e \in GlobOutcomes(Token.value) :
                   cmds'[Len(cmds')].argc =
                      current_cmd.argc + (IF e.ok THEN Len(e.paths) ELSE 1)]_vars

(***************************************************************************)
(* Claims about the job table.                                             *)
(***************************************************************************)
\* the shell has reaped process p: it knows that p has terminated
KnownExited(p) == procs[p].st = "reaped"
AllReaped == \A p \in Pids : KnownExited(p)

\* C13: a job is marked running iff its process is not known to have
\* exited or stopped, so that qsh_job_count counts the jobs that still run.
C13_RunningIffAlive ==
    /\ \A j \in 1..Len(jobs) : jobs[j].running <=> ~KnownExited(jobs[j].pid)
    /\ qsh_job_count = Cardinality({j \in 1..Len(jobs) : ~KnownExited(jobs[j].pid)})

\* C14: every entry of the job table has job_id >= 1 and a larger job_id
\* than every entry made before it.
C14_JobIdsMonotonic ==
    \A j \in 1..Len(jobs) :
        /\ jobs[j].job_id >= 1
        /\ \A h \in 1..(j - 1) : jobs[h].job_id < jobs[j].job_id

\* C15: when the executor is back at the prompt and every child it forked
\* has terminated and been reaped, the `jobs` builtin prints nothing and the
\* job table has room.
C15_JobsDestroyed ==
    (pc = "prompt" /\ AllReaped) =>
        /\ qsh_builtin_jobs = <<>>
        /\ Len(jobs) < MAX_JOBS

\* a process of the foreground pipeline is stopped
PipelineStopped ==
    \E j \in 1..Len(pl.pids) : procs[pl.pids[j]].st \in {"stopped", "stopped_reported"}
\* the executor is back at the prompt and the pipeline's job is not running
AtPromptWithStoppedJob ==
    /\ pc = "prompt"
    /\ \E j \in 1..Len(jobs) : jobs[j].pid = pl.first_pid /\ ~jobs[j].running

\* C16: when processes of the foreground pipeline are stopped, the executor
\* eventually is back at the prompt, without waiting for them to exit, and
\* the pipeline is in the job table as a job that is not running.
C16_StoppedPipelineReturnsToPrompt == PipelineStopped ~> AtPromptWithStoppedJob

\* the entries of background commands whose exit the handler has recorded
ExitedBackgroundJobs ==
    {j \in 1..Len(jobs) : /\ chain[procs[jobs[j].pid].node].op = "BACKGROUND"
                          /\ procs[jobs[j].pid].st = "reaped"
                          /\ ~jobs[j].running}
Done(j) == [job_id |-> jobs[j].job_id, what |-> "Done"]

\* C17: with standard input on a terminal the handler has printed a Done
\* message for every background job whose exit it has recorded; without a
\* terminal it prints nothing.
C17_DoneMessages ==
    /\ shell_is_interactive =>
           \A j \in ExitedBackgroundJobs : \E m \in 1..Len(printed) : printed[m] = Done(j)
    /\ ~shell_is_interactive => printed = <<>>

\* the children that have reached execvp and are alive
Execed == {p \in Pids : procs[p].st \in {"running", "stopped", "stopped_reported"}}

\* C18: the program a forked child executes starts with the default
\* disposition for SIGINT, SIGQUIT, SIGTSTP, SIGTTIN, SIGTTOU and SIGCHLD,
\* whatever the shell had installed or ignored before the fork.
C18_ChildDefaultDispositions ==
    \A p \in Execed : \A s \in Signals : AfterExec(procs[p].sigs)[s] = "SIG_DFL"

\* the runs of internal commands whose redirections could not be set up
RedirFailures == {r \in 1..Len(runs) : runs[r].how = "redir_fail"}

\* C19: when setup_redirections fails for an internal command, the handler
\* of that command is not invoked, and qsh_execute_command returns a
\* non-zero status for the chain.
C19_RedirFailureReturnsNonZero ==
    /\ \A r \in RedirFailures :
           ~\E q \in 1..Len(runs) : runs[q].first = runs[r].first /\ runs[q].how = "internal"
    /\ (Returned /\ RedirFailures # {}) => ret # 0

\* what stage i of k is meant to hold on the pipes: its stdin and its stdout
StdPipeFds(i, k) ==
    (IF i > 0 THEN {Descriptor(0, i - 1, "r")} ELSE {})
        \cup (IF i < k - 1 THEN {Descriptor(1, i, "w")} ELSE {})

\* C20: a pipeline child calls execvp holding, on the pipeline's pipes, only
\* fd 0 (read end of pipe i-1, for i > 0) and fd 1 (write end of pipe i, for
\* i < k-1); and once all stages are forked the shell holds no pipe
\* descriptor.
C20_NoPipeLeak ==
    /\ \A p \in Execed : procs[p].stage > 0 =>
           procs[p].fds = StdPipeFds(procs[p].stage - 1, pl.k)
    /\ pc \in {"pl_fg", "pl_wait", "pl_ret"} => pl.open = {}

(***************************************************************************)
(* Command history (utils/history.c): qsh_history_add, qsh_history_save    *)
(* and qsh_history_load on the static `history`, its file and the clock.   *)
(***************************************************************************)
\* the shell with its executor and parser at rest
ShellIdle == ExecIdle /\ NoTerminal /\ ParseIdle

Entry3(command, timestamp, exit_status) ==
    [command |-> command, timestamp |-> timestamp, exit_status |-> exit_status]

\* command lines and statuses handed to qsh_history_add
HistCommands == {"ls", "make"}
HistArgs == HistCommands \X StatusVals

\* the entries of a history that has taken n commands, one a second
Old(n) == [i \in 1..n |-> Entry3("old", i, 0)]
\* the clock after those
InitClock == MAX_HISTORY_ENTRIES + 1
\* empty, one entry, one short of full, full
InitCounts == {0, 1, MAX_HISTORY_ENTRIES - 1, MAX_HISTORY_ENTRIES}

HistOp(op, command, exit_status, r) ==
    [op |-> op, command |-> command, exit_status |-> exit_status, ret |-> r,
     after_save |-> hist_op.op = "save" /\ hist_op.ret = 0, n |-> hist_op.n + 1]

\* an eviction that drops the newest entry instead of the oldest
ShiftDownNewest(h) ==
    IF Len(h) = MAX_HISTORY_ENTRIES THEN SubSeq(h, 1, Len(h) - 1) ELSE h

\* if (history.count == MAX_HISTORY_ENTRIES) { memmove(&entries[0], &entries[1], ...); count--; }
ShiftDown(h) ==
    IF Len(h) = MAX_HISTORY_ENTRIES THEN Tail(h) ELSE h

\* the entries after a qsh_history_add whose strdup succeeds, at time now
Added(h, command, exit_status, now) ==
    Append(ShiftDown(h), Entry3(command, now, exit_status))

\* fprintf(file, "%ld %d %s\n", timestamp, exit_status, command): the three
\* fields of a line
FormatLine(e) == <<e.timestamp, e.exit_status, e.command>>
\* the strtol / strtol / rest-of-line parse of qsh_history_load: the
\* timestamp is checked to be positive and then dropped
ParseLine(l) == [ok |-> l[1] > 0, exit_status |-> l[2], command |-> l[3]]

\* the loop of qsh_history_load, qsh_history_add for every line that parses,
\* started from the cleared history: the entries of those lines in order,
\* stamped now, the oldest shifted out beyond MAX_HISTORY_ENTRIES
LineParses(l) == ParseLine(l).ok
LoadLines(lines, now) ==
    LET good == SelectSeq(lines, LineParses)
        all  == [i \in 1..Len(good) |->
                    Entry3(ParseLine(good[i]).command, now, ParseLine(good[i]).exit_status)]
    IN IF Len(all) > MAX_HISTORY_ENTRIES
       THEN SubSeq(all, Len(all) - MAX_HISTORY_ENTRIES + 1, Len(all))
       ELSE all

HistoryInit ==
    /\ ShellIdle /\ StoreIdle /\ AliasIdle /\ ProfilerIdle /\ LexIdle /\ ArithIdle /\ DirIdle /\ TtyIdle /\ FdIdle
    /\ history \in {Old(n) : n \in InitCounts}
    /\ file = NoFile
    /\ clock = InitClock
    /\ hist_op = NoHistOp
    /\ saved = <<>>

MoreHistOps == hist_op.n < MaxHistoryOps

qsh_history_add ==
    /\ MoreHistOps
    /\ \E a \in HistArgs :
          \/ /\ history' = Added(history, a[1], a[2], clock)
             /\ hist_op' = HistOp("add", a[1], a[2], 0)
          \/ \* strdup fails after the shift
             /\ history' = ShiftDown(history)
             /\ hist_op' = HistOp("add", a[1], a[2], -1)
    /\ UNCHANGED <<notHistVars, file, clock, saved>>

qsh_history_save ==
    /\ MoreHistOps
    /\ \/ /\ file' = [exists |-> TRUE,
                      lines |-> [i \in 1..Len(history) |-> FormatLine(history[i])]]
          /\ saved' = history
          /\ hist_op' = HistOp("save", "", 0, 0)
       \/ \* no history file name, or fopen fails
          /\ UNCHANGED <<file, saved>>
          /\ hist_op' = HistOp("save", "", 0, -1)
    /\ UNCHANGED <<notHistVars, history, clock>>

qsh_history_load ==
    /\ MoreHistOps
    /\ IF file.exists
       THEN /\ history' = LoadLines(file.lines, clock)
            /\ hist_op' = HistOp("load", "", 0, 0)
       ELSE /\ history' = history
            /\ hist_op' = HistOp("load", "", 0, -1)
    /\ UNCHANGED <<notHistVars, file, clock, saved>>

\* a second passes
Tick ==
    /\ clock < InitClock + MaxTicks
    /\ clock' = clock + 1
    /\ UNCHANGED <<notHistVars, history, file, hist_op, saved>>

HistoryNext ==
    \/ qsh_history_add
    \/ qsh_history_save
    \/ qsh_history_load
    \/ Tick

SpecHistory == HistoryInit /\ [][HistoryNext]_vars

\* qsh_history_most_recent: &entries[count - 1]
qsh_history_most_recent == history[Len(history)]

C22_SaveLoadRoundTrip ==
    (hist_op.op = "load" /\ hist_op.ret = 0 /\ hist_op.after_save) => history = saved

\* ---- the calls on the variable store, one action each ----
StoreInit ==
    /\ ShellIdle /\ HistoryIdle /\ AliasIdle /\ ProfilerIdle /\ LexIdle /\ ArithIdle /\ DirIdle /\ TtyIdle /\ FdIdle
    /\ var_table = EmptyTable
    /\ environ \in {e \in [VarNames -> {NULL, "e"}] : \A n \in VarNames : ~ValidName(n) => e[n] = NULL}
    /\ variables_initialized = FALSE
    /\ store_op = NoStoreOp

qsh_variable_set ==
    /\ \E name \in VarNames, value \in VarValues, exported \in BOOLEAN :
          IF ~ValidName(name)
          THEN /\ store_op' = StoreOp("set", name, value, exported, -1)
               /\ variables_initialized' = TRUE
               /\ var_table' = Initialized(var_table, environ)
               /\ environ' = environ
          ELSE LET t == Initialized(var_table, environ)
                   b == hash_var_name(name)
                   i == find_var(t, name)
               IN /\ variables_initialized' = TRUE
                  /\ \/ /\ i # 0
                        /\ var_table' = [t EXCEPT ![b][i].value = value, ![b][i].exported = exported]
                        /\ environ' = [environ EXCEPT ![name] = IF exported THEN value ELSE NULL]
                        /\ store_op' = StoreOp("set", name, value, exported, 0)
                     \/ /\ i = 0
                        /\ var_table' = InsertVar(t, VarEntry(name, value, exported))
                        /\ environ' = IF exported THEN [environ EXCEPT ![name] = value] ELSE environ
                        /\ store_op' = StoreOp("set", name, value, exported, 0)
                     \/ \* create_var_entry fails: out of memory
                        /\ i = 0
                        /\ var_table' = t /\ environ' = environ
                        /\ store_op' = StoreOp("set", name, value, exported, -1)
    /\ UNCHANGED notStoreVars

qsh_variable_unset ==
    /\ \E name \in VarNames :
          LET b == hash_var_name(name)
              i == find_var(var_table, name)
          IN IF i # 0
             THEN /\ var_table' = [var_table EXCEPT ![b] =
                                      SubSeq(@, 1, i - 1) \o SubSeq(@, i + 1, Len(@))]
                  /\ environ' = IF var_table[b][i].exported
                                THEN [environ EXCEPT ![name] = NULL] ELSE environ
                  /\ store_op' = StoreOp("unset", name, "", FALSE, 0)
             ELSE /\ UNCHANGED <<var_table, environ>>
                  /\ store_op' = StoreOp("unset", name, "", FALSE, -1)
    /\ UNCHANGED <<notStoreVars, variables_initialized>>

StoreNext ==
    \/ qsh_variable_set
    \/ qsh_variable_unset

SpecStore == StoreInit /\ [][StoreNext]_vars

(***************************************************************************)
(* Claims about the variable store.                                        *)
(***************************************************************************)
\* C23: after qsh_variable_set(k, v, exported) returns 0, qsh_variable_get(k)
\* is v; after qsh_variable_unset(k), qsh_variable_get(k) is null or
\* getenv(k); and a call on k leaves qsh_variable_get(j) as it was for every
\* other name j.
C23_SetGetUnset ==
    [][store_op' # store_op =>
          LET k == store_op'.name IN
          /\ (store_op'.op = "set" /\ store_op'.ret = 0) =>
                 VariableGet(var_table', environ', k) = store_op'.value
          /\ store_op'.op = "unset" =>
                 VariableGet(var_table', environ', k) \in {NULL, environ'[k]}
          /\ \A j \in VarNames \ {k} :
                 VariableGet(var_table', environ', j) = qsh_variable_get(j)]_vars

\* two names of one bucket are both set, to different values, the older
\* one by a set that found it there
C23_Witness ==
    /\ hash_var_name(<<97, 82>>) = hash_var_name(<<98, 49>>)
    /\ find_var(var_table, <<97, 82>>) = 2
    /\ find_var(var_table, <<98, 49>>) = 1
    /\ store_op = StoreOp("set", <<97, 82>>, "y", FALSE, 0)
    /\ qsh_variable_get(<<98, 49>>) = "x"

(***************************************************************************)
(* Aliases (utils/aliases.c): qsh_alias_set and qsh_alias_expand.  A line  *)
(* is a sequence of characters.                                            *)
(***************************************************************************)
\* longest input line
MaxLine == 4
Chars == {"l", "s", " "}
Lines == UNION {[1..n -> Chars] : n \in 0..MaxLine}
\* alias names, and values: "s", and "l s", which begins with a name
AliasNames == {<<"l">>, <<"s">>}
AliasValues == {<<"s">>, <<"l", " ", "s">>}

isspace(c) == c = " "

\* while (isspace(*input)) input++
RECURSIVE SkipSpace(_)
SkipSpace(s) == IF s # <<>> /\ isspace(Head(s)) THEN SkipSpace(Tail(s)) ELSE s
\* while (*cmd_end && !isspace(*cmd_end)) cmd_end++: the length of the word
RECURSIVE WordLen(_)
WordLen(s) == IF s # <<>> /\ ~isspace(Head(s)) THEN 1 + WordLen(Tail(s)) ELSE 0

\* find_alias through qsh_alias_get: position of the entry, 0 if none
find_alias(t, name) ==
    IF name # <<>> /\ \E i \in 1..Len(t) : t[i].name = name
    THEN CHOOSE i \in 1..Len(t) : t[i].name = name
    ELSE 0

\* the text qsh_alias_expand puts in *expanded_input
AliasExpand(t, input) ==
    LET in  == SkipSpace(input)
        n   == WordLen(in)
        cmd_name == SubSeq(in, 1, n)
        cmd_end  == SubSeq(in, n + 1, Len(in))
        a   == find_alias(t, cmd_name)
    IN IF in = <<>> THEN <<>>
       ELSE IF a = 0 THEN in
       ELSE t[a].value \o cmd_end

AliasInit ==
    /\ ShellIdle /\ HistoryIdle /\ StoreIdle /\ ProfilerIdle /\ LexIdle /\ ArithIdle /\ DirIdle /\ TtyIdle /\ FdIdle
    /\ alias_table = <<>>
    /\ line \in Lines
    /\ expanded_input = <<>>
    /\ alias_pc = "set"

qsh_alias_set ==
    /\ alias_pc = "set"
    /\ \E name \in AliasNames, value \in AliasValues :
          LET a == find_alias(alias_table, name)
          IN alias_table' = IF a # 0 THEN [alias_table EXCEPT ![a].value = value]
                            ELSE <<[name |-> name, value |-> value]>> \o alias_table
    /\ UNCHANGED <<notAliasVars, line, expanded_input, alias_pc>>

qsh_alias_expand ==
    /\ alias_pc = "set"
    /\ expanded_input' = AliasExpand(alias_table, line)
    /\ alias_pc' = "expanded"
    /\ UNCHANGED <<notAliasVars, alias_table, line>>

AliasNext ==
    \/ qsh_alias_set
    \/ qsh_alias_expand

SpecAlias == AliasInit /\ [][AliasNext]_vars

(***************************************************************************)
(* Claims about aliases.                                                   *)
(***************************************************************************)
\* the first whitespace-delimited word of the line and what follows it
FirstWord(l) == SubSeq(SkipSpace(l), 1, WordLen(SkipSpace(l)))
Remainder(l) == SubSeq(SkipSpace(l), WordLen(SkipSpace(l)) + 1, Len(SkipSpace(l)))

\* C24: for a line that has a first word: if the word names an alias, the
\* result is the alias value followed by the unchanged remainder of the
\* line, not expanded again; if it does not, the result equals the input.
C24_AliasExpansion ==
    (alias_pc = "expanded" /\ FirstWord(line) # <<>>) =>
        LET a == find_alias(alias_table, FirstWord(line))
        IN IF a # 0
           THEN expanded_input = alias_table[a].value \o Remainder(line)
           ELSE expanded_input = line

\* ---------------------------------------------------------------------
\* Profiler: profiler/profiler.c, and qsh_enable_profiling,
\* qsh_disable_profiling and the `profile` builtin on top of it.
\* A result of ptrace or waitpid is an input: each call succeeds or fails.
\* ---------------------------------------------------------------------
\* bound: profiler calls and `profile` commands of one run
MaxProfOps == 4
\* the pids a caller passes: the shell's own (getpid()) and one child
Tracees == {"shell", "child"}
\* elapsed times of one system call, in clock ticks (0: both readings equal)
Elapsed == {0, 1, 2}

\* no other step of the module moves while the profiler is exercised
ProfilerInit ==
    /\ ShellIdle /\ HistoryIdle /\ StoreIdle /\ AliasIdle /\ LexIdle /\ ProfilerIdle /\ ArithIdle /\ DirIdle /\ TtyIdle /\ FdIdle

\* the guard of qsh_profiler_start with the test left out (never holds)
AlreadyProfilingNever(P) == FALSE
\* profiler.c:157: `if (is_profiling) return QSH_ERROR_ALREADY_PROFILING;`
AlreadyProfiling(P) == P.is_profiling

\* qsh_profiler_init: memset of the state, every per-call entry zero
qsh_profiler_init(P) == [P EXCEPT !.syscall_stats = [s \in Syscalls |-> NoStat]]

\* PTRACE_DETACH of pid: it can succeed only on a pid that is traced (and
\* stopped); on failure the kernel's tracing state is as it was
Detach(P, pid) ==
    {[ok |-> FALSE, p |-> P]}
    \cup (IF pid \in P.traced
          THEN {[ok |-> TRUE, p |-> [P EXCEPT !.traced = @ \ {pid}]]}
          ELSE {})

\* qsh_profiler_start(pid): the set of its outcomes [p, ret]
Start(P, pid) ==
    IF AlreadyProfiling(P)
    THEN {[p |-> P, ret |-> "QSH_ERROR_ALREADY_PROFILING"]}
    ELSE LET R == qsh_profiler_init(P)
             A == [R EXCEPT !.traced = @ \cup {pid}]
         IN \* PTRACE_ATTACH fails
            {[p |-> R, ret |-> "QSH_ERROR_SYSCALL_FAILED"]}
            \* attached, then waitpid, PTRACE_SETOPTIONS or PTRACE_SYSCALL
            \* fails: PTRACE_DETACH (result not looked at) and the error
            \cup {[p |-> d.p, ret |-> "QSH_ERROR_SYSCALL_FAILED"] : d \in Detach(A, pid)}
            \* every call succeeds
            \cup {[p |-> [A EXCEPT !.is_profiling = TRUE, !.profiled_pid = pid],
                   ret |-> "QSH_SUCCESS"]}

\* qsh_profiler_stop(): the set of its outcomes [p, ret]
Stop(P) ==
    IF ~P.is_profiling
    THEN {[p |-> P, ret |-> "QSH_ERROR_NOT_PROFILING"]}
    ELSE LET S == [P EXCEPT !.should_stop_profiling = TRUE]
         IN {IF d.ok
             THEN [p |-> [d.p EXCEPT !.is_profiling = FALSE, !.profiled_pid = "none",
                                     !.should_stop_profiling = FALSE],
                   ret |-> "QSH_SUCCESS"]
             ELSE [p |-> d.p, ret |-> "QSH_ERROR_SYSCALL_FAILED"]
             : d \in Detach(S, P.profiled_pid)}

\* the update of one entry of syscall_stats (profiler.c:252-262)
Collect(stat, elapsed) ==
    [count |-> stat.count + 1,
     total_time |-> stat.total_time + elapsed,
     min_time |-> IF stat.min_time = 0 \/ elapsed < stat.min_time
                  THEN elapsed ELSE stat.min_time,
     max_time |-> IF elapsed > stat.max_time THEN elapsed ELSE stat.max_time]

ProfOp(name, result, builtin) ==
    [op |-> name, ret |-> result, builtins_only |-> prof_op.builtins_only /\ builtin,
     n |-> prof_op.n + 1]

MoreProfOps == prof_op.n < MaxProfOps

\* a direct call of qsh_profiler_start(pid)
qsh_profiler_start ==
    /\ MoreProfOps
    /\ \E pid \in Tracees : \E o \in Start(prof, pid) :
        /\ prof' = o.p
        /\ prof_op' = ProfOp("start", o.ret, FALSE)
    /\ UNCHANGED <<profiling_enabled, notProfVars>>

\* a direct call of qsh_profiler_stop()
qsh_profiler_stop ==
    /\ MoreProfOps
    /\ \E o \in Stop(prof) :
        /\ prof' = o.p
        /\ prof_op' = ProfOp("stop", o.ret, FALSE)
    /\ UNCHANGED <<profiling_enabled, notProfVars>>

\* qsh_profiler_collect_syscall at a syscall stop of the profiled pid
qsh_profiler_collect_syscall ==
    /\ MoreProfOps
    /\ prof.is_profiling
    /\ \E s \in Syscalls : \E e \in Elapsed :
        /\ prof' = [prof EXCEPT !.syscall_stats[s] = Collect(@, e)]
        /\ prof_op' = ProfOp("collect", "QSH_SUCCESS", TRUE)
    /\ UNCHANGED <<profiling_enabled, notProfVars>>

\* `profile on`: qsh_enable_profiling (shell.c:840-855)
profile_on ==
    /\ MoreProfOps
    /\ IF profiling_enabled
       THEN /\ prof_op' = ProfOp("on", "QSH_SUCCESS", TRUE)
            /\ UNCHANGED <<prof, profiling_enabled>>
       ELSE \E o \in Start(prof, "shell") :
                IF o.ret = "QSH_SUCCESS"
                THEN /\ prof' = o.p
                     /\ profiling_enabled' = TRUE
                     /\ prof_op' = ProfOp("on", o.ret, TRUE)
                ELSE \E c \in Stop(o.p) :
                        /\ prof' = c.p
                        /\ UNCHANGED profiling_enabled
                        /\ prof_op' = ProfOp("on", o.ret, TRUE)
    /\ UNCHANGED notProfVars

\* `profile off`: qsh_disable_profiling (shell.c:857-863); the result of
\* qsh_profiler_stop is not looked at
profile_off ==
    /\ MoreProfOps
    /\ IF profiling_enabled
       THEN \E o \in Stop(prof) :
                /\ prof' = o.p
                /\ profiling_enabled' = FALSE
                /\ prof_op' = ProfOp("off", "QSH_SUCCESS", TRUE)
       ELSE /\ prof_op' = ProfOp("off", "QSH_SUCCESS", TRUE)
            /\ UNCHANGED <<prof, profiling_enabled>>
    /\ UNCHANGED notProfVars

\* `profile status`: prints what qsh_is_profiling_enabled() returns
profile_status ==
    /\ MoreProfOps
    /\ prof_op' = ProfOp("status", IF profiling_enabled THEN "enabled" ELSE "disabled", TRUE)
    /\ UNCHANGED <<prof, profiling_enabled, notProfVars>>

\* the traced child exits: the kernel forgets it
TraceeExit ==
    /\ MoreProfOps
    /\ "child" \in prof.traced
    /\ prof' = [prof EXCEPT !.traced = @ \ {"child"}]
    /\ prof_op' = ProfOp("exit", "QSH_SUCCESS", TRUE)
    /\ UNCHANGED <<profiling_enabled, notProfVars>>

ProfilerNext ==
    \/ qsh_profiler_start
    \/ qsh_profiler_stop
    \/ qsh_profiler_collect_syscall
    \/ profile_on
    \/ profile_off
    \/ profile_status
    \/ TraceeExit

SpecProfiler == ProfilerInit /\ [][ProfilerNext]_vars

\* the part of the profiler's state the interface speaks of
ProfilerState(P) == <<P.profiled_pid, P.is_profiling, P.syscall_stats>>
Idle(P) == ~P.is_profiling /\ P.profiled_pid = "none"
Attached(P) == P.is_profiling /\ P.profiled_pid \in Tracees

\* C25: a direct start while Attached returns QSH_ERROR_ALREADY_PROFILING and
\* a direct stop while Idle returns QSH_ERROR_NOT_PROFILING, both leaving the
\* attached pid, the profiling flag and the statistics as they were; a start
\* that fails for another reason leaves the profiler Idle.
C25_StartStopErrors ==
    [][(prof_op'.n # prof_op.n) =>
        /\ (prof_op'.op = "start" /\ Attached(prof)) =>
              /\ prof_op'.ret = "QSH_ERROR_ALREADY_PROFILING"
              /\ ProfilerState(prof') = ProfilerState(prof)
        /\ (prof_op'.op = "stop" /\ Idle(prof)) =>
              /\ prof_op'.ret = "QSH_ERROR_NOT_PROFILING"
              /\ ProfilerState(prof') = ProfilerState(prof)
        /\ (prof_op'.op = "start" /\ prof_op'.ret = "QSH_ERROR_SYSCALL_FAILED") =>
              Idle(prof')
        /\ Idle(prof') \/ Attached(prof')]_vars

\* a second start arrived while a process with recorded calls was attached
C25_Witness ==
    /\ prof_op.op = "start" /\ prof_op.ret = "QSH_ERROR_ALREADY_PROFILING"
    /\ Attached(prof)
    /\ \E s \in Syscalls : prof.syscall_stats[s].count > 0

C27_MinMeanMax ==
    \A s \in Syscalls :
        LET stat == prof.syscall_stats[s]
        IN stat.count > 0 =>
            /\ stat.min_time * stat.count <= stat.total_time
            /\ stat.total_time <= stat.max_time * stat.count

\* ---------------------------------------------------------------------
\* Tokenizer: utils/tokenizer.c, tokenize() and evaluate_arithmetic().
\* A line is a sequence of characters; memory holds the line, its
\* terminator, and whatever bytes follow it.
\* ---------------------------------------------------------------------
\* bound: pieces a line is put together from
MaxPieces == 5
\* the terminating '\0'
NUL == "NUL"
\* the backquote character (0x60), which a string of this notation cannot hold
Backtick == "bq"
\* the pieces lines are drawn from: a letter, a blank, the comment sign, the
\* quotes, the substitution and arithmetic brackets, a backslash, a sum
LexPieces ==
    {<<"e">>, <<" ">>, <<"#">>, <<"'">>, <<"\"">>, <<Backtick>>, <<"\\">>,
     <<"$", "(">>, <<"$", "(", "(">>, <<")">>, <<")", ")">>, <<"2", "+", "3">>}
\* the lines of at most n pieces of P
RECURSIVE LinesFrom(_, _)
LinesFrom(P, n) ==
    IF n = 0 THEN {<<>>}
    ELSE LET S == LinesFrom(P, n - 1) IN S \cup {l \o p : l \in S, p \in P}
LinesOf(n) == LinesFrom(LexPieces, n)
\* what can lie after the line's terminator, up to the next '\0'
Beyond == {<<>>, <<"e">>}

Memory(input, beyond) == input \o <<NUL>> \o beyond \o <<NUL>>
At(m, i) == IF i \in 1..Len(m) THEN m[i] ELSE NUL

Digits == <<"0", "1", "2", "3", "4", "5", "6", "7", "8", "9">>
isdigit(c) == \E k \in 1..Len(Digits) : Digits[k] = c
DigitVal(c) == (CHOOSE k \in 1..Len(Digits) : Digits[k] = c) - 1
\* the letters of the lines drawn, and the digits
isalnum(c) == c = "e" \/ isdigit(c)
is_operator_char(c) == c \in {"|", "&", ";", "<", ">"}

unescape_char(c) ==
    CASE c = "n" -> "\n" [] c = "t" -> "\t" [] c = "r" -> "\r" [] OTHER -> c

\* snprintf("%ld", n)
RECURSIVE ToDecimal(_)
ToDecimal(n) ==
    IF n < 0 THEN <<"-">> \o ToDecimal(0 - n)
    ELSE IF n < 10 THEN <<Digits[n + 1]>>
    ELSE ToDecimal(n \div 10) \o <<Digits[(n % 10) + 1]>>

\* C's / and % on long: the quotient is truncated toward zero
CDiv(a, b) ==
    LET q == (IF a < 0 THEN 0 - a ELSE a) \div (IF b < 0 THEN 0 - b ELSE b)
    IN IF (a < 0) = (b < 0) THEN q ELSE 0 - q
CMod(a, b) == a - b * CDiv(a, b)

\* while (isspace(*p)) p++
RECURSIVE SkipWs(_, _)
SkipWs(m, i) == IF isspace(At(m, i)) THEN SkipWs(m, i + 1) ELSE i
\* while (isdigit(*p)) p++ / while (isalnum(*p) || *p == '_') p++
RECURSIVE SkipDigits(_, _)
SkipDigits(m, i) == IF isdigit(At(m, i)) THEN SkipDigits(m, i + 1) ELSE i
RECURSIVE SkipName(_, _)
SkipName(m, i) ==
    IF isalnum(At(m, i)) \/ At(m, i) = "_" THEN SkipName(m, i + 1) ELSE i
\* strtol of the digits m[i..j-1]
RECURSIVE DecimalValue(_, _, _)
DecimalValue(m, i, j) ==
    IF j <= i THEN 0 ELSE 10 * DecimalValue(m, i, j - 1) + DigitVal(m[j - 1])

\* the bracket-matching loops: from i with `depth` open, to where the loop
\* stops; escapes is TRUE for `$(`, whose loop steps over a backslashed byte
RECURSIVE ParenScan(_, _, _, _)
ParenScan(m, i, depth, escapes) ==
    IF At(m, i) = NUL \/ depth <= 0 THEN [cur |-> i, depth |-> depth]
    ELSE IF m[i] = "(" THEN ParenScan(m, i + 1, depth + 1, escapes)
    ELSE IF m[i] = ")" THEN ParenScan(m, i + 1, depth - 1, escapes)
    ELSE IF escapes /\ m[i] = "\\" /\ At(m, i + 1) # NUL
         THEN ParenScan(m, i + 2, depth, escapes)
    ELSE ParenScan(m, i + 1, depth, escapes)

\* evaluate_arithmetic(expr): the loop from p with `result` and `op`; no
\* shell variable is set, so a `$name` counts as 0
RECURSIVE Eval(_, _, _, _)
Eval(e, p0, result, op) ==
    LET m == e \o <<NUL>>
        p == SkipWs(m, p0)
        c == At(m, p)
        Apply(num) ==
            CASE op = "+" -> result + num
              [] op = "-" -> result - num
              [] op = "*" -> result * num
              [] op = "/" -> IF num # 0 THEN CDiv(result, num) ELSE result
              [] op = "%" -> IF num # 0 THEN CMod(result, num) ELSE result
        After(num, q0) ==
            LET q == SkipWs(m, q0)
            IN IF At(m, q) \in {"+", "-", "*", "/", "%"}
               THEN Eval(e, q + 1, Apply(num), At(m, q))
               ELSE Apply(num)
    IN IF c = NUL THEN result
       ELSE IF c = "("
            THEN LET s == ParenScan(m, p + 1, 1, FALSE)
                 IN After(IF s.depth = 0
                          THEN Eval(SubSeq(m, p + 1, s.cur - 2), 1, 0, "+")
                          ELSE 0,
                          s.cur)
       ELSE IF isdigit(c)
            THEN LET q == SkipDigits(m, p) IN After(DecimalValue(m, p, q), q)
       ELSE IF c = "$"
            THEN After(0, SkipName(m, p + 1))
       ELSE Eval(e, p + 1, result, op)
evaluate_arithmetic(expr) == Eval(expr, 1, 0, "+")

\* the backtick loop: to the closing backtick or the terminator
RECURSIVE BacktickScan(_, _)
BacktickScan(m, i) ==
    IF At(m, i) = NUL \/ m[i] = Backtick THEN i
    ELSE IF m[i] = "\\" /\ At(m, i + 1) # NUL THEN BacktickScan(m, i + 2)
    ELSE BacktickScan(m, i + 1)

\* the loop of a quoted string: to the closing quote or the terminator
RECURSIVE QuoteScan(_, _, _, _)
QuoteScan(m, i, quote, unescaped) ==
    IF At(m, i) = NUL \/ m[i] = quote THEN [cur |-> i, text |-> unescaped]
    ELSE IF m[i] = "\\" /\ quote = "\""
         THEN IF At(m, i + 1) # NUL
              THEN QuoteScan(m, i + 2, quote, Append(unescaped, unescape_char(m[i + 1])))
              ELSE QuoteScan(m, i + 1, quote, unescaped)
    ELSE QuoteScan(m, i + 1, quote, Append(unescaped, m[i]))

\* the loop of a literal: to a blank, operator, quote or `$` that is not escaped
RECURSIVE LiteralScan(_, _, _, _, _)
LiteralScan(m, i, buf, in_escaped_quote, escaped_quote_char) ==
    IF At(m, i) = NUL THEN [cur |-> i, text |-> buf]
    ELSE IF m[i] = "\\" /\ At(m, i + 1) # NUL
         THEN LET next == m[i + 1]
                  isq == next \in {"\"", "'"}
              IN LiteralScan(m, i + 2, Append(buf, unescape_char(next)),
                     IF isq /\ ~in_escaped_quote THEN TRUE
                     ELSE IF isq /\ next = escaped_quote_char THEN FALSE
                     ELSE in_escaped_quote,
                     IF isq /\ ~in_escaped_quote THEN next
                     ELSE IF isq /\ next = escaped_quote_char THEN NUL
                     ELSE escaped_quote_char)
    ELSE IF in_escaped_quote
         THEN LiteralScan(m, i + 1, Append(buf, m[i]), in_escaped_quote, escaped_quote_char)
    ELSE IF isspace(m[i]) \/ is_operator_char(m[i]) \/ m[i] \in {"\"", "'", "$"}
         THEN [cur |-> i, text |-> buf]
    ELSE LiteralScan(m, i + 1, Append(buf, m[i]), in_escaped_quote, escaped_quote_char)

add_token(list, type, value) == Append(list, [type |-> type, value |-> value])

\* is_multi_char_operator(current), current = m + j - 1
is_multi_char_operator(m, j) ==
    /\ At(m, j) # NUL /\ At(m, j + 1) # NUL
    /\ <<m[j], m[j + 1]>> \in {<<"&", "&">>, <<"|", "|">>, <<">", ">">>, <<"2", ">">>}
\* is_redirection_start(current)
is_redirection_start(m, j) ==
    At(m, j) \in {"<", ">"} \/ (At(m, j) = "2" /\ At(m, j + 1) = ">")
\* does m hold the bytes of w from position j on
StartsWith(m, j, w) == \A k \in 1..Len(w) : At(m, j + k - 1) = w[k]
\* the operator branch of tokenize (tokenizer.c:291-334): the token it adds,
\* which gives the number of bytes it steps over
OperatorToken(m, j) ==
    LET Redir(w) == [type |-> "TOKEN_REDIRECTION", value |-> w]
        Oper(w) == [type |-> "TOKEN_OPERATOR", value |-> w]
    IN IF is_multi_char_operator(m, j)
       THEN IF StartsWith(m, j, <<"2", ">", ">", "&", "1">>) THEN Redir(<<"2", ">", ">", "&", "1">>)
            ELSE IF StartsWith(m, j, <<"2", ">", "&", "1">>) THEN Redir(<<"2", ">", "&", "1">>)
            ELSE IF StartsWith(m, j, <<"2", ">", ">">>) THEN Redir(<<"2", ">", ">">>)
            ELSE IF StartsWith(m, j, <<"2", ">">>) THEN Redir(<<"2", ">">>)
            ELSE IF StartsWith(m, j, <<">", ">">>) THEN Redir(<<">", ">">>)
            ELSE IF StartsWith(m, j, <<"&", "&">>) THEN Oper(<<"&", "&">>)
            ELSE Oper(<<"|", "|">>)
       ELSE IF is_redirection_start(m, j) THEN Redir(<<m[j]>>)
            ELSE Oper(<<m[j]>>)

\* get_special_var: `$?` with a last status of 0, `$$` and `$!` a pid
get_special_var(c) == IF c = "?" THEN <<"0">> ELSE <<"pid">>

\* tokenizer.c:216
IsComment(c, in_single_quote, in_double_quote) ==
    c = "#" /\ ~in_single_quote /\ ~in_double_quote

\* the main loop of tokenize() from `current` = i. The lines drawn hold no
\* `!` and no `{`, so the branches of history expansion and `${` are left out.
RECURSIVE Lex(_, _, _, _, _)
Lex(m, i, in_single_quote, in_double_quote, list) ==
    LET j == SkipWs(m, i)
        c == At(m, j)
        sub == ParenScan(m, j + 2, 1, TRUE)
        bt == BacktickScan(m, j + 1)
        ar == ParenScan(m, j + 3, 2, FALSE)
        expr_len == ar.cur - (j + 3) - 3
        q == QuoteScan(m, j + 1, c, <<>>)
        v == SkipName(m, j + 1)
        lit == LiteralScan(m, j, <<>>, FALSE, NUL)
        opt == OperatorToken(m, j)
        Go(k, l) == Lex(m, k, in_single_quote, in_double_quote, l)
    IN IF c = NUL THEN list
       ELSE IF IsComment(c, in_single_quote, in_double_quote) THEN list
       \* $(cmd): one more byte is stepped over after the closing bracket
       ELSE IF c = "$" /\ At(m, j + 1) = "(" /\ ~in_single_quote /\ sub.depth = 0
            THEN Go(sub.cur + 1,
                    add_token(list, "TOKEN_CMD_SUB", SubSeq(m, j + 2, sub.cur - 2)))
       ELSE IF c = Backtick /\ ~in_single_quote /\ At(m, bt) = Backtick
            THEN Go(bt + 1, add_token(list, "TOKEN_CMD_SUB", SubSeq(m, j + 1, bt - 1)))
       \* the here-document operator
       ELSE IF c = "<" /\ At(m, j + 1) = "<" /\ ~in_single_quote /\ ~in_double_quote
            THEN Go(j + 2, add_token(list, "TOKEN_REDIRECTION", <<"<", "<">>))
       ELSE IF is_operator_char(c) \/ (c = "2" /\ At(m, j + 1) = ">")
            THEN Go(j + Len(opt.value), add_token(list, opt.type, opt.value))
       \* a quote flips its flag when it opens a string, never when it closes it
       ELSE IF c \in {"\"", "'"}
            THEN LET sq == IF c = "'" THEN ~in_single_quote ELSE in_single_quote
                     dq == IF c = "\"" THEN ~in_double_quote ELSE in_double_quote
                 IN IF At(m, q.cur) # NUL
                    THEN Lex(m, q.cur + 1, sq, dq, add_token(list, "TOKEN_QUOTED", q.text))
                    ELSE Lex(m, q.cur, sq, dq, list)
       ELSE IF c = "$" /\ At(m, j + 1) = "(" /\ At(m, j + 2) = "(" /\ ~in_single_quote
               /\ ar.depth = 0
            THEN IF expr_len > 0 /\ expr_len < 1024
                 THEN Go(ar.cur,
                         add_token(list, "TOKEN_LITERAL",
                             ToDecimal(evaluate_arithmetic(SubSeq(m, j + 4, j + 3 + expr_len)))))
                 ELSE Go(ar.cur, list)
       ELSE IF c = "$"
            THEN IF At(m, j + 1) \in {"?", "$", "!"}
                 THEN Go(j + 2, add_token(list, "TOKEN_LITERAL", get_special_var(m[j + 1])))
                 ELSE IF v > j + 1
                 THEN Go(v, add_token(list, "TOKEN_LITERAL", <<>>))
                 ELSE Go(v, add_token(list, "TOKEN_LITERAL", <<"$">>))
       ELSE IF lit.text # <<>>
            THEN Go(lit.cur, add_token(list, "TOKEN_LITERAL", lit.text))
            ELSE Go(lit.cur, list)

\* tokenize(input) with `beyond` after the terminator: the tokens of the list
Tokenize(input, beyond) == Lex(Memory(input, beyond), 1, FALSE, FALSE, <<>>)

LexInit ==
    /\ ShellIdle /\ HistoryIdle /\ StoreIdle /\ AliasIdle /\ ProfilerIdle /\ ArithIdle /\ DirIdle /\ TtyIdle /\ FdIdle
    /\ lex_input \in LinesOf(MaxPieces)
    /\ lex_beyond \in Beyond
    /\ lex_list = [ok |-> TRUE, tokens |-> <<>>]
    /\ lex_cmd = "none"
    /\ lex_pc = "ready"

\* tokenize(): NULL when malloc of the list fails, else the list
tokenize ==
    /\ lex_pc = "ready"
    /\ \E malloc_ok \in BOOLEAN :
        lex_list' = IF malloc_ok
                    THEN [ok |-> TRUE, tokens |-> Tokenize(lex_input, lex_beyond)]
                    ELSE [ok |-> FALSE, tokens |-> <<>>]
    /\ lex_pc' = "lexed"
    /\ UNCHANGED <<lex_input, lex_beyond, lex_cmd, notLexVars>>

\* the rest of qsh_parse_command and main(): no list or no token, no
\* command; otherwise the command is handed to qsh_execute_command
parse_and_run ==
    /\ lex_pc = "lexed"
    /\ lex_cmd' = IF lex_list.ok /\ lex_list.tokens # <<>> THEN "executed" ELSE "discarded"
    /\ lex_pc' = "parsed"
    /\ UNCHANGED <<lex_input, lex_beyond, lex_list, notLexVars>>

LexNext == tokenize \/ parse_and_run

SpecLex == LexInit /\ [][LexNext]_vars

Lexed == lex_pc \in {"lexed", "parsed"} /\ lex_list.ok

\* which quoted string, if any, the end of s lies in: "none", or the quote
RECURSIVE Quoting(_, _)
Quoting(s, q) ==
    IF s = <<>> THEN q
    ELSE IF q = "none"
         THEN Quoting(Tail(s), IF Head(s) \in {"'", "\""} THEN Head(s) ELSE "none")
         ELSE Quoting(Tail(s), IF Head(s) = q THEN "none" ELSE q)
\* s holds words, blanks and quotes only
Plain(s) == \A i \in 1..Len(s) : s[i] \in {"e", " ", "'", "\""}
\* s holds words and blanks only
Words(s) == \A i \in 1..Len(s) : s[i] \in {"e", " "}
\* position k of s holds a `#` that starts a word outside any quoted string
CommentStart(s, k) ==
    /\ s[k] = "#"
    /\ k = 1 \/ s[k - 1] = " "
    /\ Plain(SubSeq(s, 1, k - 1))
    /\ Quoting(SubSeq(s, 1, k - 1), "none") = "none"

\* C28: a `#` that starts a word outside any quoted string ends the line: the
\* tokens are those of the text before it, however many quoted strings come
\* first; a line that is one quoted string holding a `#` is one Quoted token.
C28_CommentEndsLine ==
    Lexed =>
        /\ \A k \in 1..Len(lex_input) :
              CommentStart(lex_input, k) =>
                  lex_list.tokens = Tokenize(SubSeq(lex_input, 1, k - 1), lex_beyond)
        /\ \A q \in {"'", "\""} :
              LET n == Len(lex_input)
                  body == SubSeq(lex_input, 2, n - 1)
              IN (/\ n >= 3 /\ lex_input[1] = q /\ lex_input[n] = q
                  /\ \A i \in 1..Len(body) : body[i] \in {"e", " ", "#"}) =>
                     lex_list.tokens = <<[type |-> "TOKEN_QUOTED", value |-> body]>>

\* s is words, then an opening quote, `$(` or backquote, then words: the
\* string or substitution is never closed
Unclosed(s) ==
    \E k \in 1..Len(s) :
        /\ Words(SubSeq(s, 1, k - 1))
        /\ \/ s[k] \in {"'", "\"", Backtick} /\ Words(SubSeq(s, k + 1, Len(s)))
           \/ s[k] = "$" /\ At(s, k + 1) = "(" /\ Words(SubSeq(s, k + 2, Len(s)))

\* C29: a line with an unclosed quote or a truncated `$(` or backquote
\* substitution yields no command: qsh_parse_command returns NULL for it and
\* the line is discarded, not executed.
C29_UnclosedIsLexError ==
    (lex_pc = "parsed" /\ Unclosed(lex_input)) => lex_cmd = "discarded"

\* `$((2+3))`
ArithWord == <<"$", "(", "(", "2", "+", "3", ")", ")">>

\* C30: `$((2+3))` becomes exactly one Literal token holding 5, alone on the
\* line or as the argument of a command.
C30_ArithmeticLiteral ==
    Lexed =>
        /\ lex_input = ArithWord =>
              lex_list.tokens = <<[type |-> "TOKEN_LITERAL", value |-> <<"5">>]>>
        /\ lex_input = <<"e", " ">> \o ArithWord =>
              lex_list.tokens = <<[type |-> "TOKEN_LITERAL", value |-> <<"e">>],
                                  [type |-> "TOKEN_LITERAL", value |-> <<"5">>]>>

\* ---------------------------------------------------------------------
\* Arithmetic: evaluate_arithmetic (utils/tokenizer.c) on expressions put
\* together from numbers, the five operators and one level of brackets.
\* ---------------------------------------------------------------------
\* bound: terms of an expression, and of a bracketed sub-expression
MaxTerms == 2
ArithOps == {"+", "-", "*", "/", "%"}
ArithNums == {0, 2, 7}
\* a term is an operator and the number to its right; the first term of a
\* list has the operator "+" and is written without it
ArithTerm == [op : ArithOps, num : ArithNums]
FlatLists ==
    {l \in UNION {[1..n -> ArithTerm] : n \in 1..MaxTerms} : l[1].op = "+"}
\* an operand is a number, or a bracketed list of terms
ArithOperands ==
    [paren : {FALSE}, terms : {l \in FlatLists : Len(l) = 1}]
    \cup [paren : {TRUE}, terms : FlatLists]
ArithExprs ==
    {e \in UNION {[1..n -> [op : ArithOps, operand : ArithOperands]] : n \in 1..MaxTerms} :
        e[1].op = "+"}

\* the text of an expression
RECURSIVE RenderFlat(_)
RenderFlat(l) ==
    IF l = <<>> THEN <<>>
    ELSE LET k == Len(l)
         IN RenderFlat(SubSeq(l, 1, k - 1))
            \o (IF k = 1 THEN <<>> ELSE <<l[k].op>>) \o ToDecimal(l[k].num)
RenderOperand(o) ==
    IF o.paren THEN <<"(">> \o RenderFlat(o.terms) \o <<")">> ELSE RenderFlat(o.terms)
RECURSIVE Render(_)
Render(e) ==
    IF e = <<>> THEN <<>>
    ELSE LET k == Len(e)
         IN Render(SubSeq(e, 1, k - 1))
            \o (IF k = 1 THEN <<>> ELSE <<e[k].op>>) \o RenderOperand(e[k].operand)

ArithInit ==
    /\ ShellIdle /\ HistoryIdle /\ StoreIdle /\ AliasIdle /\ ProfilerIdle /\ LexIdle /\ DirIdle /\ TtyIdle /\ FdIdle
    /\ arith_expr \in ArithExprs
    /\ arith_result = [done |-> FALSE, value |-> 0]

\* a call of evaluate_arithmetic on the text of the expression
evaluate ==
    /\ ~arith_result.done
    /\ arith_result' = [done |-> TRUE, value |-> evaluate_arithmetic(Render(arith_expr))]
    /\ UNCHANGED <<arith_expr, notArithVars>>

ArithNext == evaluate

SpecArith == ArithInit /\ [][ArithNext]_vars

\* what the interface says one operator does: C's arithmetic, and 0 for a
\* division or modulus by 0
Applied(result, op, num) ==
    CASE op = "+" -> result + num
      [] op = "-" -> result - num
      [] op = "*" -> result * num
      [] op = "/" -> IF num = 0 THEN 0 ELSE CDiv(result, num)
      [] op = "%" -> IF num = 0 THEN 0 ELSE CMod(result, num)
\* strictly left to right over a list of terms, from 0
RECURSIVE FlatValue(_)
FlatValue(l) ==
    IF l = <<>> THEN 0
    ELSE LET k == Len(l) IN Applied(FlatValue(SubSeq(l, 1, k - 1)), l[k].op, l[k].num)
RECURSIVE ExprValue(_)
ExprValue(e) ==
    IF e = <<>> THEN 0
    ELSE LET k == Len(e)
         IN Applied(ExprValue(SubSeq(e, 1, k - 1)), e[k].op, FlatValue(e[k].operand.terms))

\* C31: evaluate_arithmetic applies + - * / % strictly left to right, a
\* bracketed sub-expression first, and a division or modulus by 0 gives 0.
C31_LeftToRight ==
    arith_result.done => arith_result.value = ExprValue(arith_expr)

\* ---- operators and redirections ----
\* bound: characters of a line made of operator characters
MaxOpLen == 4
OpChars == {<<"e">>, <<" ">>, <<"&">>, <<"|">>, <<">">>, <<"<">>, <<"2">>, <<"1">>, <<";">>}
\* the operators of more than one character, and the type of their token
MultiOps ==
    {[type |-> "TOKEN_OPERATOR", value |-> <<"&", "&">>],
     [type |-> "TOKEN_OPERATOR", value |-> <<"|", "|">>],
     [type |-> "TOKEN_REDIRECTION", value |-> <<">", ">">>],
     [type |-> "TOKEN_REDIRECTION", value |-> <<"2", ">">>],
     [type |-> "TOKEN_REDIRECTION", value |-> <<"2", ">", ">">>],
     [type |-> "TOKEN_REDIRECTION", value |-> <<"&", ">">>],
     [type |-> "TOKEN_REDIRECTION", value |-> <<"<", "<">>],
     [type |-> "TOKEN_REDIRECTION", value |-> <<"2", ">", "&", "1">>]}
\* `e OP e`
Between(w) == <<"e", " ">> \o w \o <<" ", "e">>

LexOpsInit ==
    /\ ShellIdle /\ HistoryIdle /\ StoreIdle /\ AliasIdle /\ ProfilerIdle /\ ArithIdle /\ DirIdle /\ TtyIdle /\ FdIdle
    /\ lex_input \in LinesFrom(OpChars, MaxOpLen) \cup {Between(o.value) : o \in MultiOps}
    /\ lex_beyond = <<>>
    /\ lex_list = [ok |-> TRUE, tokens |-> <<>>]
    /\ lex_cmd = "none"
    /\ lex_pc = "ready"

SpecLexOps == LexOpsInit /\ [][LexNext]_vars

\* C32: each operator of more than one character is one token of its type,
\* alone on the line and between two words; `&>` is not split into `&`, `>`.
C32_MultiCharOperators ==
    Lexed =>
        \A o \in MultiOps :
            /\ lex_input = o.value => lex_list.tokens = <<o>>
            /\ lex_input = Between(o.value) =>
                  lex_list.tokens = <<[type |-> "TOKEN_LITERAL", value |-> <<"e">>], o,
                                      [type |-> "TOKEN_LITERAL", value |-> <<"e">>]>>

\* ---------------------------------------------------------------------
\* Quoted words in the parser (qsh_parse_command, add_argument)
\* ---------------------------------------------------------------------
\* lines with quoted and unquoted words, with and without glob characters
QuotedLineTokens ==
    {[type |-> "QUOTED", value |-> v] : v \in {"w", "*"}}
       \cup {[type |-> "LITERAL", value |-> v] : v \in {"w", "*"}}
       \cup {[type |-> "OPERATOR", value |-> "|"], [type |-> "REDIRECTION", value |-> ">"],
             [type |-> "CMD_SUB", value |-> "sub"]}
QuotedLines == UNION {[1..n -> QuotedLineTokens] : n \in 1..MaxTokens}

ParseQuotedInit ==
    /\ ExecIdle
    /\ NoTerminal
    /\ UtilIdle
    /\ tokens \in QuotedLines
    /\ tok_i = 0
    /\ cmds = <<>>
    /\ parse_pc = "start"

SpecParseQuoted == ParseQuotedInit /\ [][ParseNext]_vars

\* C33: a Quoted token is not eligible for glob expansion: the step that
\* handles it appends exactly one argument to argv, the token's payload,
\* also when the payload holds `*` and files match.
C33_QuotedNotExpanded ==
    [][(InLoop /\ Token.type = "QUOTED" /\ parse_pc' = "loop")
          => LET c == cmds'[Len(cmds')] IN
             /\ c.argc = current_cmd.argc + 1
             /\ ArgvAt(c, current_cmd.argc) = Token.value]_vars

\* ---------------------------------------------------------------------
\* Directories: qsh_builtin_cd and the accessors of core/shell.c
\* ---------------------------------------------------------------------
MaxCdOps == 3
\* the directories that exist, and a path that names none
Dirs == {StartDir, HomeDir, "/b"}
NoSuchDir == "/nx"
CdArgs == Dirs \cup {NoSuchDir, "-", NULL}

\* main() hands qsh_init its own local qsh_state_t, so the global
\* shell_state that the accessors read keeps current_dir = previous_dir = NULL
CdInit ==
    /\ ShellIdle /\ HistoryIdle /\ StoreIdle /\ AliasIdle /\ ProfilerIdle /\ LexIdle /\ ArithIdle /\ TtyIdle /\ FdIdle
    /\ cwd \in Dirs
    /\ current_dir = NULL
    /\ previous_dir = NULL
    /\ cd_log = <<>>

\* what chdir() reads through `path` after qsh_set_previous_dir has freed
\* the buffer it points into: the old bytes, the new copy of the current
\* directory that strdup put in the same block, or bytes naming no directory
Dangling(old, current) == {old, current, NoSuchDir}

CdEntry(arg, result, from) ==
    [arg |-> arg, ret |-> result, from |-> from, cwd |-> cwd', previous_dir |-> previous_dir']

\* qsh_builtin_cd(cmd) with argv[1] = arg (NULL: argc is 1)
qsh_builtin_cd ==
    /\ Len(cd_log) < MaxCdOps
    /\ \E arg \in CdArgs, home \in {NULL, HomeDir} :
          LET prev_dir == previous_dir
              path == IF arg = "-" THEN prev_dir ELSE IF arg = NULL THEN home ELSE arg
              current == current_dir
          IN
          IF path = NULL
          THEN \* "cd: no previous directory" / "cd: no home directory"
               /\ UNCHANGED <<cwd, current_dir, previous_dir>>
               /\ cd_log' = Append(cd_log, CdEntry(arg, 1, cwd))
          ELSE /\ previous_dir' = IF current # NULL THEN current ELSE previous_dir
               /\ \E target \in (IF arg = "-" /\ current # NULL
                                 THEN Dangling(prev_dir, current) ELSE {path}) :
                     IF target \in Dirs
                     THEN /\ cwd' = target
                          /\ current_dir' = target
                          /\ cd_log' = Append(cd_log, CdEntry(arg, 0, cwd))
                     ELSE /\ UNCHANGED <<cwd, current_dir>>
                          /\ cd_log' = Append(cd_log, CdEntry(arg, 1, cwd))
    /\ UNCHANGED notDirVars

CdNext == qsh_builtin_cd

SpecCd == CdInit /\ [][CdNext]_vars

\* C34: after a successful `cd X` issued from directory D, first of the
\* session or not, `cd -` succeeds, changes the working directory to D and
\* makes X the previous directory.
C34_CdMinusSwaps ==
    \A i \in 1..(Len(cd_log) - 1) :
        (cd_log[i].ret = 0 /\ cd_log[i].arg \in Dirs /\ cd_log[i + 1].arg = "-")
            => /\ cd_log[i + 1].ret = 0
               /\ cd_log[i + 1].cwd = cd_log[i].from
               /\ cd_log[i + 1].previous_dir = cd_log[i].arg

\* ---------------------------------------------------------------------
\* Foreground hand-over: put_process_in_foreground and its two callers,
\* execute_pipeline and qsh_builtin_fg.  A job is one process group.
\* ---------------------------------------------------------------------
MaxFgRounds == 2
\* static pid_t shell_pgid, the shell's own process group
shell_pgid == 1
FgGroups == {2, 3}
NoJob == [st |-> "none", touched |-> FALSE]

\* init_job_control: with a terminal, tcgetattr saves shell_tmodes and
\* tcsetpgrp makes the shell's group the terminal's foreground group
ForegroundInit ==
    /\ ExecIdle /\ ParseIdle
    /\ HistoryIdle /\ StoreIdle /\ AliasIdle /\ ProfilerIdle /\ LexIdle /\ ArithIdle /\ DirIdle /\ FdIdle
    /\ AnyTerminal
    /\ tty_pgrp = shell_pgid
    /\ tty_modes = "shell_tmodes"
    /\ tty_ops = IF shell_is_interactive THEN 2 ELSE 0
    /\ fg_pc = "prompt"
    /\ fg_jobs = [g \in FgGroups |-> NoJob]
    /\ fg_rounds = 0

\* tcsetattr(shell_terminal, TCSADRAIN, &shell_tmodes) and
\* tcsetpgrp(shell_terminal, shell_pgid) at the end of put_process_in_foreground
RestoreNothing(t) == t
RestoreTerminal(t) == [t EXCEPT !.modes = "shell_tmodes", !.pgrp = shell_pgid]

\* execute_pipeline: the children are forked into a new group, then
\* shell_state.foreground_pgid = first_pid
pipeline_foreground ==
    /\ fg_pc = "prompt" /\ fg_rounds < MaxFgRounds
    /\ \E g \in FgGroups :
          /\ fg_jobs[g].st = "none"
          /\ fg_jobs' = [fg_jobs EXCEPT ![g].st = "running"]
          /\ foreground_pgid' = g
    /\ fg_pc' = "call"
    /\ fg_rounds' = fg_rounds + 1
    /\ UNCHANGED <<tty_pgrp, tty_modes, tty_ops>>
    /\ UNCHANGED <<chain, pc, cur, last_status, ret, hist_status, wpid, pl,
                   procVars, obsVars, parseVars, termVars, notTtyUtilVars>>

\* a command line ending in & leaves a job running in the background
background_job ==
    /\ fg_pc = "prompt" /\ fg_rounds < MaxFgRounds
    /\ \E g \in FgGroups :
          /\ fg_jobs[g].st = "none"
          /\ fg_jobs' = [fg_jobs EXCEPT ![g].st = "running"]
    /\ UNCHANGED <<tty_pgrp, tty_modes, tty_ops, fg_pc, fg_rounds>>
    /\ UNCHANGED notTtyVars

\* qsh_builtin_fg on a job of the table: shell_state.foreground_pgid = pgid
qsh_builtin_fg ==
    /\ fg_pc = "prompt" /\ fg_rounds < MaxFgRounds
    /\ \E g \in FgGroups :
          /\ fg_jobs[g].st \in {"running", "stopped"}
          /\ foreground_pgid' = g
    /\ fg_pc' = "call"
    /\ fg_rounds' = fg_rounds + 1
    /\ UNCHANGED <<tty_pgrp, tty_modes, tty_ops, fg_jobs>>
    /\ UNCHANGED <<chain, pc, cur, last_status, ret, hist_status, wpid, pl,
                   procVars, obsVars, parseVars, termVars, notTtyUtilVars>>

\* put_process_in_foreground up to its waitpid: tcsetpgrp(shell_terminal,
\* pgid) with a terminal (it fails when the group is gone), then SIGCONT
\* (both callers may pass cont; a running job ignores it)
foreground_enter ==
    /\ fg_pc = "call"
    /\ LET g == foreground_pgid IN
       /\ IF shell_is_interactive
          THEN /\ tty_pgrp' = IF fg_jobs[g].st \in {"running", "stopped"} THEN g ELSE tty_pgrp
               /\ tty_ops' = tty_ops + 1
          ELSE UNCHANGED <<tty_pgrp, tty_ops>>
       /\ fg_jobs' = IF fg_jobs[g].st = "stopped"
                     THEN [fg_jobs EXCEPT ![g].st = "running"] ELSE fg_jobs
    /\ fg_pc' = "wait"
    /\ UNCHANGED <<tty_modes, fg_rounds>>
    /\ UNCHANGED notTtyVars

\* a job that holds the terminal changes its modes (an editor, a pager)
job_tcsetattr(g) ==
    /\ fg_jobs[g].st = "running" /\ tty_pgrp = g
    /\ ~fg_jobs[g].touched
    /\ tty_modes' = "job"
    /\ fg_jobs' = [fg_jobs EXCEPT ![g].touched = TRUE]
    /\ UNCHANGED <<tty_pgrp, tty_ops, fg_pc, fg_rounds>>
    /\ UNCHANGED notTtyVars

\* the job is stopped by a signal, or all its processes exit
job_stop(g) ==
    /\ fg_jobs[g].st = "running"
    /\ fg_jobs' = [fg_jobs EXCEPT ![g].st = "stopped"]
    /\ UNCHANGED <<tty_pgrp, tty_modes, tty_ops, fg_pc, fg_rounds>>
    /\ UNCHANGED notTtyVars

job_exit(g) ==
    /\ fg_jobs[g].st = "running"
    /\ fg_jobs' = [fg_jobs EXCEPT ![g].st = "zombie"]
    /\ UNCHANGED <<tty_pgrp, tty_modes, tty_ops, fg_pc, fg_rounds>>
    /\ UNCHANGED notTtyVars

\* waitpid(-pgid, &status, WUNTRACED) returns: a child stopped or exited,
\* or the group has no child left (ECHILD); with a terminal the modes and
\* the foreground group are put back.  put_process_in_foreground returns.
foreground_return ==
    /\ fg_pc = "wait"
    /\ LET g == foreground_pgid
           t == [modes |-> tty_modes, pgrp |-> tty_pgrp]
           r == IF shell_is_interactive THEN RestoreTerminal(t) ELSE t
       IN
       /\ fg_jobs[g].st \in {"stopped", "zombie", "reaped"}
       /\ fg_jobs' = IF fg_jobs[g].st = "zombie"
                     THEN [fg_jobs EXCEPT ![g].st = "reaped"] ELSE fg_jobs
       /\ tty_modes' = r.modes
       /\ tty_pgrp' = r.pgrp
       /\ tty_ops' = IF shell_is_interactive THEN tty_ops + 2 ELSE tty_ops
    /\ fg_pc' = "returned"
    /\ UNCHANGED fg_rounds
    /\ UNCHANGED notTtyVars

\* shell_state.foreground_pgid = 0; the caller goes on to the prompt
foreground_clear ==
    /\ fg_pc = "returned"
    /\ foreground_pgid' = 0
    /\ fg_pc' = "prompt"
    /\ UNCHANGED <<tty_pgrp, tty_modes, tty_ops, fg_jobs, fg_rounds>>
    /\ UNCHANGED <<chain, pc, cur, last_status, ret, hist_status, wpid, pl,
                   procVars, obsVars, parseVars, termVars, notTtyUtilVars>>

ForegroundNext ==
    \/ pipeline_foreground
    \/ background_job
    \/ qsh_builtin_fg
    \/ foreground_enter
    \/ \E g \in FgGroups : job_tcsetattr(g)
    \/ \E g \in FgGroups : job_stop(g)
    \/ \E g \in FgGroups : job_exit(g)
    \/ foreground_return
    \/ foreground_clear

SpecForeground == ForegroundInit /\ [][ForegroundNext]_vars

\* C35: with a terminal, when put_process_in_foreground has returned the
\* terminal's foreground group is shell_pgid and its modes are the saved
\* ones; without a terminal the shell performs no terminal operation; and
\* foreground_pgid is 0 whenever control is at the prompt, non-zero only
\* from the caller's assignment to the return of the wait.
C35_ForegroundDiscipline ==
    /\ (shell_is_interactive /\ fg_pc = "returned")
          => (tty_pgrp = shell_pgid /\ tty_modes = "shell_tmodes")
    /\ ~shell_is_interactive
          => (tty_ops = 0 /\ tty_pgrp = shell_pgid /\ tty_modes = "shell_tmodes")
    /\ fg_pc = "prompt" => foreground_pgid = 0
    /\ foreground_pgid # 0 => fg_pc \in {"call", "wait", "returned"}

\* put_process_in_foreground has returned from a job that was stopped
\* after it had changed the terminal's modes
C35_Witness ==
    /\ shell_is_interactive
    /\ fg_pc = "returned"
    /\ fg_jobs[foreground_pgid].st = "stopped"
    /\ fg_jobs[foreground_pgid].touched
    /\ tty_ops = 5

\* ---------------------------------------------------------------------
\* Descriptors around an internal command: the builtin branch of
\* qsh_execute_command and setup_redirections.
\* ---------------------------------------------------------------------
MaxFd == 7
MaxRedirs == 3
Fds == 0..MaxFd
\* the open files the shell is started on; a file opened by redirection
\* number i is NewFile(i)
StdFiles == {1, 2}
NewFile(i) == 10 + i

IsOpen(T, fd) == fd \in Fds /\ T[fd] # 0
OpenFds(T) == {fd \in Fds : T[fd] # 0}
\* the lowest free descriptor, or -1 (EMFILE)
LowestFree(T) ==
    IF \E fd \in Fds : T[fd] = 0
    THEN CHOOSE fd \in Fds : T[fd] = 0 /\ \A g \in Fds : g < fd => T[g] # 0
    ELSE -1
\* open(): [fd, table]
FdOpen(T, f) ==
    LET fd == LowestFree(T) IN
    [fd |-> fd, table |-> IF fd = -1 THEN T ELSE [T EXCEPT ![fd] = f]]
\* dup(old)
FdDup(T, old) == IF IsOpen(T, old) THEN FdOpen(T, T[old]) ELSE [fd |-> -1, table |-> T]
\* dup2(old, new): nothing happens when old is no open descriptor
FdDup2(T, old, new) == IF IsOpen(T, old) THEN [T EXCEPT ![new] = T[old]] ELSE T
FdClose(T, fd) == IF fd \in Fds THEN [T EXCEPT ![fd] = 0] ELSE T

RedirEntries ==
    [type : {"REDIR_INPUT", "REDIR_OUTPUT", "REDIR_ERR_OUT", "REDIR_HEREDOC"},
     outcome : {"ok", "fail"}]
       \cup {[type |-> "REDIR_ERR_TO_OUT", outcome |-> "ok"]}
RedirLists == UNION {[1..n -> RedirEntries] : n \in 0..MaxRedirs}

InternalInit ==
    /\ ShellIdle /\ HistoryIdle /\ StoreIdle /\ AliasIdle /\ ProfilerIdle /\ LexIdle /\ ArithIdle /\ DirIdle /\ TtyIdle
    /\ \E std \in [0..2 -> StdFiles] :
          fd_table = [fd \in Fds |-> IF fd <= 2 THEN std[fd] ELSE 0]
    /\ fd_before = fd_table
    /\ redirs \in RedirLists
    /\ redir_i = 0
    /\ saved_fds = [out |-> -1, err |-> -1, in |-> -1]
    /\ fd_pc = "builtin"

\* int saved_stdout = dup(1); int saved_stderr = dup(2); int saved_stdin = dup(0);
save_descriptors ==
    /\ fd_pc = "builtin"
    /\ LET o == FdDup(fd_table, 1)
           e == FdDup(o.table, 2)
           i == FdDup(e.table, 0)
       IN /\ saved_fds' = [out |-> o.fd, err |-> e.fd, in |-> i.fd]
          /\ fd_table' = i.table
    /\ fd_pc' = "redirect"
    /\ UNCHANGED <<fd_before, redirs, redir_i>>
    /\ UNCHANGED notFdVars

StdFdOf(type) ==
    CASE type = "REDIR_INPUT" -> 0
      [] type = "REDIR_OUTPUT" -> 1
      [] type = "REDIR_ERR_OUT" -> 2

\* one round of the loop of setup_redirections, over redirections[i]:
\* [ok, table]
Redirect(T, r, i) ==
    IF r.type = "REDIR_ERR_TO_OUT"
    THEN [ok |-> TRUE, table |-> FdDup2(T, 1, 2)]
    ELSE IF r.type = "REDIR_HEREDOC"
    THEN \* read_heredoc or mkstemp fails: the entry is skipped
         IF r.outcome = "fail" THEN [ok |-> TRUE, table |-> T]
         ELSE LET tmp == FdOpen(T, NewFile(i)) IN
              [ok |-> TRUE, table |-> FdClose(FdDup2(tmp.table, tmp.fd, 0), tmp.fd)]
    ELSE IF r.outcome = "fail"
    THEN \* open() fails: return -1
         [ok |-> FALSE, table |-> T]
    ELSE LET new == FdOpen(T, NewFile(i)) IN
         [ok |-> TRUE, table |-> FdClose(FdDup2(new.table, new.fd, StdFdOf(r.type)), new.fd)]

setup_redirections ==
    /\ fd_pc = "redirect"
    /\ redir_i < Len(redirs)
    /\ LET r == Redirect(fd_table, redirs[redir_i + 1], redir_i) IN
       /\ fd_table' = r.table
       /\ IF r.ok
          THEN redir_i' = redir_i + 1 /\ fd_pc' = fd_pc
          ELSE redir_i' = redir_i /\ fd_pc' = "restore_failed"
    /\ UNCHANGED <<fd_before, redirs, saved_fds>>
    /\ UNCHANGED notFdVars

\* every redirection is applied: builtin->handler(cmd) runs
builtin_handler ==
    /\ fd_pc = "redirect"
    /\ redir_i = Len(redirs)
    /\ fd_pc' = "restore"
    /\ UNCHANGED <<fd_table, fd_before, redirs, redir_i, saved_fds>>
    /\ UNCHANGED notFdVars

\* dup2(saved_stdout, 1); dup2(saved_stderr, 2); dup2(saved_stdin, 0)
RestoreOnly(T, s) == FdDup2(FdDup2(FdDup2(T, s.out, 1), s.err, 2), s.in, 0)
\* ... and close(saved_stdout); close(saved_stderr); close(saved_stdin)
RestoreAndClose(T, s) == FdClose(FdClose(FdClose(RestoreOnly(T, s), s.out), s.err), s.in)

restore_descriptors ==
    /\ fd_pc \in {"restore", "restore_failed"}
    /\ fd_table' = RestoreAndClose(fd_table, saved_fds)
    /\ fd_pc' = IF fd_pc = "restore" THEN "ran" ELSE "failed"
    /\ UNCHANGED <<fd_before, redirs, redir_i, saved_fds>>
    /\ UNCHANGED notFdVars

InternalNext ==
    \/ save_descriptors
    \/ setup_redirections
    \/ builtin_handler
    \/ restore_descriptors

SpecInternal == InternalInit /\ [][InternalNext]_vars

\* C36: after the executor has run an internal command with any list of
\* redirections, all applied or failing part-way, descriptors 0, 1 and 2
\* refer to the open files they referred to before, the three saved
\* duplicates are closed, and as many descriptors are open as before.
C36_StandardDescriptorsRestored ==
    fd_pc \in {"ran", "failed"} =>
        /\ \A fd \in 0..2 : fd_table[fd] = fd_before[fd]
        /\ \A fd \in {saved_fds.out, saved_fds.err, saved_fds.in} : ~IsOpen(fd_table, fd)
        /\ Cardinality(OpenFds(fd_table)) = Cardinality(OpenFds(fd_before))

\* two redirections were applied and the third failed
C36_Witness ==
    /\ fd_pc = "failed"
    /\ Len(redirs) = 3 /\ redir_i = 2
    /\ redirs[1] = [type |-> "REDIR_OUTPUT", outcome |-> "ok"]
    /\ redirs[2] = [type |-> "REDIR_ERR_TO_OUT", outcome |-> "ok"]
    /\ fd_before[1] # fd_before[2]

\* ---------------------------------------------------------------------
\* The foreground wait of a single external command and the SIGCHLD handler
\* ---------------------------------------------------------------------
\* C37: for a foreground external single command, the status stored in
\* last_status when the executor's waitpid on the child returns is the
\* child's exit status (as WIFEXITED/WEXITSTATUS decode it), whether or not
\* handle_sigchld ran before that waitpid.
C37_ForegroundStatusIsChilds ==
    [][(pc = "wait" /\ pc' # "wait") => last_status' = Decode(procs[wpid].ws)]_vars

\* ---------------------------------------------------------------------
\* The variable table and the process environment: qsh_variables_init,
\* qsh_variable_export, and the calls of the store above
\* ---------------------------------------------------------------------
\* any environment over the names, valid shell names or not
StoreEnvInit ==
    /\ ShellIdle /\ HistoryIdle /\ AliasIdle /\ ProfilerIdle /\ LexIdle /\ ArithIdle /\ DirIdle /\ TtyIdle /\ FdIdle
    /\ var_table = EmptyTable
    /\ environ \in [VarNames -> {NULL, "e"}]
    /\ variables_initialized = FALSE
    /\ store_op = NoStoreOp

\* qsh_variables_init, called by qsh_init; a second call returns at once
qsh_variables_init ==
    /\ ~variables_initialized
    /\ variables_initialized' = TRUE
    /\ var_table' = LoadEnviron(var_table, environ, VarNames)
    /\ environ' = environ
    /\ store_op' = StoreOp("init", <<>>, "", FALSE, 0)
    /\ UNCHANGED notStoreVars

\* setenv(name, value, 1)
NoSetenv(env, name, value) == env
Setenv(env, name, value) == [env EXCEPT ![name] = value]

\* qsh_variable_export(name)
qsh_variable_export ==
    /\ \E name \in VarNames :
          LET b == hash_var_name(name)
              i == find_var(var_table, name)
          IN \* qsh_variable_set initializes the table when it is called first
             /\ variables_initialized' =
                   (variables_initialized \/ (i = 0 /\ environ[name] # NULL))
             /\ IF i = 0
                THEN IF environ[name] # NULL
                     THEN \* return qsh_variable_set(name, getenv(name), true)
                          IF ~ValidName(name)
                          THEN /\ var_table' = Initialized(var_table, environ)
                               /\ environ' = environ
                               /\ store_op' = StoreOp("export", name, "", TRUE, -1)
                          ELSE LET t == Initialized(var_table, environ)
                                   j == find_var(t, name)
                               IN /\ var_table' = IF j # 0 THEN [t EXCEPT ![b][j].exported = TRUE]
                                                  ELSE InsertVar(t, VarEntry(name, environ[name], TRUE))
                                  /\ environ' = Setenv(environ, name, environ[name])
                                  /\ store_op' = StoreOp("export", name, "", TRUE, 0)
                     ELSE /\ UNCHANGED <<var_table, environ>>
                          /\ store_op' = StoreOp("export", name, "", TRUE, -1)
                ELSE /\ var_table' = [var_table EXCEPT ![b][i].exported = TRUE]
                     /\ environ' = Setenv(environ, name, var_table[b][i].value)
                     /\ store_op' = StoreOp("export", name, "", TRUE, 0)
    /\ UNCHANGED notStoreVars

StoreEnvNext ==
    \/ qsh_variables_init
    \/ qsh_variable_set
    \/ qsh_variable_export
    \/ qsh_variable_unset

SpecStoreEnv == StoreEnvInit /\ [][StoreEnvNext]_vars

TableEntries == UNION {{var_table[b][i] : i \in 1..Len(var_table[b])} : b \in Buckets}

\* C38: after qsh_variables_init and any sequence of set, export and unset
\* calls, every table entry marked exported has the environment mapping its
\* name to its value, and every entry not marked exported has no
\* environment entry under its name.
C38_TableAgreesWithEnvironment ==
    variables_initialized =>
        \A e \in TableEntries :
            /\ e.exported => environ[e.name] = e.value
            /\ ~e.exported => environ[e.name] = NULL

\* a variable that came from the environment was set unexported to a new
\* value and then exported again
C38_Witness ==
    /\ store_op = StoreOp("export", <<97, 82>>, "", TRUE, 0)
    /\ VarEntry(<<97, 82>>, "x", TRUE) \in TableEntries
    /\ environ[<<97, 82>>] = "x"
    /\ VarEntry(<<98, 49>>, "y", FALSE) \in TableEntries
    /\ VarEntry(<<45>>, "e", TRUE) \in TableEntries

\* ---------------------------------------------------------------------
\* Assignments at the start of a line: qsh_parse_command on a shell whose
\* variable store qsh_init has loaded from the environment
\* ---------------------------------------------------------------------
\* the environment the shell is started with: aR=e
StartEnviron == [n \in VarNames |-> IF n = <<97, 82>> THEN "e" ELSE NULL]
\* the table after qsh_variables_init
StartTable == LoadEnviron(EmptyTable, StartEnviron, VarNames)

AssignLineTokens ==
    {[type |-> "LITERAL", value |-> v] : v \in {"aR=y", "c=x", "w"}}
       \cup {[type |-> "REDIRECTION", value |-> ">"], [type |-> "OPERATOR", value |-> "|"],
             [type |-> "CMD_SUB", value |-> "sub"]}
AssignLines == UNION {[1..n -> AssignLineTokens] : n \in 1..MaxTokens}

AssignInit ==
    /\ ExecIdle
    /\ NoTerminal
    /\ HistoryIdle /\ AliasIdle /\ ProfilerIdle /\ LexIdle /\ ArithIdle /\ DirIdle /\ TtyIdle /\ FdIdle
    /\ var_table = StartTable
    /\ environ = StartEnviron
    /\ variables_initialized = TRUE
    /\ store_op = NoStoreOp
    /\ tokens \in AssignLines
    /\ tok_i = 0
    /\ cmds = <<>>
    /\ parse_pc = "start"

SpecAssign == AssignInit /\ [][ParseNext]_vars

\* C39: an assignment NAME=VALUE at the start of a line to a variable that
\* is exported changes its value and leaves it exported: the environment
\* maps NAME to VALUE afterwards.
C39_AssignmentKeepsExport ==
    (parse_pc # "start" /\ tokens[1] = [type |-> "LITERAL", value |-> "aR=y"]) =>
        /\ environ[<<97, 82>>] = "y"
        /\ VarEntry(<<97, 82>>, "y", TRUE) \in TableEntries

\* C40: when qsh_parse_command returns no chain because of a parse error,
\* last_status and the variable store are as they were before the line was
\* read, also when the line begins with assignments.
C40_FailedParseHasNoEffect ==
    (parse_pc = "NULL" /\ process_variable_assignments(tokens, 0) < Len(tokens)) =>
        /\ last_status = 0
        /\ var_table = StartTable
        /\ environ = StartEnviron

=============================================================================
